---- MODULE Spec2Model ----
(***************************************************************************)
(* Quiz delivery engine of smart-quiz-hub (src/src/pages/TakeQuiz.tsx):    *)
(* one mounted TakeQuiz component, the backend tables it reads and writes  *)
(* (quizzes, questions, quiz_attempts, student_answers), the countdown     *)
(* timer, and the asynchronous handlers fetchQuizAndQuestions and          *)
(* handleSubmit, each split at its awaits (specification Spec).            *)
(* The authoring form of src/src/pages/CreateQuiz.tsx with the row-level   *)
(* policies of table quizzes (specification SpecCreate), and the           *)
(* statistics of src/src/pages/AdminDashboard.tsx (specification           *)
(* SpecAdmin).                                                             *)
(***************************************************************************)
EXTENDS Integers, Sequences, FiniteSets, Bags, TLC

(***************************************************************************)
(* Bounds of the model.                                                    *)
(***************************************************************************)
MaxManualSubmits == 2

\* seconds the countdown can advance while one handleSubmit is in flight
MaxPendingTicks == 1

\* quiz rows that one session of the authoring form can write
MaxQuizzes == 2

\* questions that the authoring form accumulates
MaxQuestions == 2

\* rows of quiz_attempts behind one admin dashboard
MaxAttempts == 2

(***************************************************************************)
(* Program constants.                                                      *)
(***************************************************************************)
SecondsPerMinute == 60

NoAttempt == 0

NullInt == -1

\* SQL NULL of a text column
NULL == "NULL"

\* useState(30) of the duration field
DefaultDuration == 30

(***************************************************************************)
(* Strings are sequences of one-character strings, so that trim() and      *)
(* toLowerCase() are computed character by character.                      *)
(***************************************************************************)
UpperCase == <<"A", "B", "C", "D", "E", "F", "G", "H", "I", "J", "K", "L", "M",
               "N", "O", "P", "Q", "R", "S", "T", "U", "V", "W", "X", "Y", "Z">>

LowerCase == <<"a", "b", "c", "d", "e", "f", "g", "h", "i", "j", "k", "l", "m",
               "n", "o", "p", "q", "r", "s", "t", "u", "v", "w", "x", "y", "z">>

WhiteSpace == {" ", "\t", "\n"}

LowerChar(c) ==
  IF \E i \in 1..Len(UpperCase) : UpperCase[i] = c
    THEN LowerCase[CHOOSE i \in 1..Len(UpperCase) : UpperCase[i] = c]
    ELSE c

toLowerCase(s) == [i \in 1..Len(s) |-> LowerChar(s[i])]

RECURSIVE trimStart(_)
trimStart(s) ==
  IF s # <<>> /\ Head(s) \in WhiteSpace THEN trimStart(Tail(s)) ELSE s

RECURSIVE trimEnd(_)
trimEnd(s) ==
  IF s # <<>> /\ s[Len(s)] \in WhiteSpace
    THEN trimEnd(SubSeq(s, 1, Len(s) - 1))
    ELSE s

trim(s) == trimEnd(trimStart(s))

(***************************************************************************)
(* Stored data: the questions a quiz can consist of.                       *)
(***************************************************************************)
StrA == <<"A">>

StrB == <<"B">>

StrTrue == <<"T", "r", "u", "e">>

StrFalse == <<"F", "a", "l", "s", "e">>

Catalogue ==
  << [id |-> 1, question_type |-> "mcq", options |-> <<StrA, StrB>>,
      correct_answer |-> StrB, points |-> 2],
     [id |-> 2, question_type |-> "true_false", options |-> <<StrTrue, StrFalse>>,
      correct_answer |-> StrTrue, points |-> 1],
     [id |-> 3, question_type |-> "short_answer", options |-> <<>>,
      correct_answer |-> <<" ", "P", "a", "r", "i", "s">>, points |-> 1],
     [id |-> 4, question_type |-> "short_answer", options |-> <<>>,
      correct_answer |-> <<" ">>, points |-> 1] >>

TypedAnswers == { <<"p", "a", "r", "i", "s", " ">>, <<"R", "o", "m", "e">> }

\* the question lists of the stored quizzes: a quiz whose question batch was
\* never written, the quiz of the end-to-end scenario, a short-answer quiz, and
\* a quiz whose only correct answer was typed as a single blank
StoredQuestionLists ==
  { <<>>, SubSeq(Catalogue, 1, 2), SubSeq(Catalogue, 3, 3), SubSeq(Catalogue, 4, 4) }

\* the durations of the stored quizzes, in minutes: the duration field of the
\* authoring form takes any integer
Durations == {-1, 0, 1}

StoredQuizzes ==
  [ duration_minutes : Durations,
    randomize_questions : BOOLEAN,
    randomize_options : BOOLEAN ]

VARIABLES
  quizRow,              \* table quizzes: the row of the quiz being taken
  questionRows,         \* table questions: the rows of that quiz, in stored order
  attemptsDb,           \* table quiz_attempts: sequence of rows, id = index
  answersDb,            \* table student_answers: bag of rows
  route,                \* current location of the router
  toasts,               \* notices shown so far
  fetchPc,              \* position of fetchQuizAndQuestions
  quiz,                 \* useState quiz: <<>> is null
  questions,            \* useState questions
  currentQuestionIndex, \* useState currentQuestionIndex
  answers,              \* useState answers: question id -> text
  timeLeft,             \* useState timeLeft
  attemptId,            \* useState attemptId: NoAttempt is null
  loading,              \* useState loading
  submitting,           \* useState submitting
  showTimeUpDialog,     \* useState showTimeUpDialog
  subs,                 \* invocations of handleSubmit in flight, in order of their start
  started,              \* number of invocations of handleSubmit so far, by reason
  createQuiz,           \* useState of the CreateQuiz component
  publish,              \* position of CreateQuiz.handleSubmit and what its closure holds
  quizzesDb,            \* table quizzes: sequence of rows, id = index
  questionsDb,          \* table questions: sequence of rows
  studentDashboard,     \* useState of each student's StudentDashboard
  adminDashboard,       \* useState of the AdminDashboard component
  statsPending,         \* ids of the quizzes whose fetchQuizStats is in flight
  quizAttemptsDb,       \* table quiz_attempts as the dashboards' queries see it
  studentRegister,      \* useState of the StudentRegister component
  signUp,               \* supabase.auth.signUp: the call in flight and the calls made
  results,              \* useState of the Results component and its route parameter
  studentAttempts,      \* useState attempts of the StudentDashboard component
  auth,                 \* AuthContext: the profile of the signed-in user
  history               \* the history stack of the browser, newest entry last

\* the authoring flow and what it writes
createVars == << createQuiz, publish, quizzesDb, questionsDb, studentDashboard >>

\* the admin dashboard and what it reads
adminVars == << adminDashboard, statsPending, quizAttemptsDb >>

\* registration, the results view, the student's attempt list and the session
otherVars == << studentRegister, signUp, results, studentAttempts, auth, history >>

vars == << quizRow, questionRows, attemptsDb, answersDb, route, toasts, fetchPc,
           quiz, questions, currentQuestionIndex, answers, timeLeft, attemptId,
           loading, submitting, showTimeUpDialog, subs, started,
           createVars, adminVars, otherVars >>

\* the pages that a specification leaves unmounted
RegisterUnused == studentRegister = <<>> /\ signUp = <<>>

ResultsUnused == results = <<>>

StudentAttemptsUnused == studentAttempts = <<>>

AuthUnused == auth = <<>> /\ history = <<>>

OtherPagesUnused ==
  RegisterUnused /\ ResultsUnused /\ StudentAttemptsUnused /\ AuthUnused

\* the stored quiz that TakeQuiz reads, and the state of the other pages
dbVars == << quizRow, questionRows, createVars, adminVars, otherVars >>

Init ==
  /\ quizRow \in StoredQuizzes
  /\ questionRows \in StoredQuestionLists
  /\ attemptsDb = <<>>
  /\ answersDb = EmptyBag
  /\ route = "/quiz"
  /\ toasts = [load_failed |-> 0, submit_failed |-> 0, submit_ok |-> 0]
  /\ fetchPc = "quiz"
  /\ quiz = <<>>
  /\ questions = <<>>
  /\ currentQuestionIndex = 0
  /\ answers = <<>>
  /\ timeLeft = 0
  /\ attemptId = NoAttempt
  /\ loading = TRUE
  /\ submitting = FALSE
  /\ showTimeUpDialog = FALSE
  /\ subs = <<>>
  /\ started = [manual |-> 0, timeout |-> 0]
  /\ createQuiz = <<>>
  /\ publish = [pc |-> "idle"]
  /\ quizzesDb = <<>>
  /\ questionsDb = <<>>
  /\ studentDashboard = <<>>
  /\ adminDashboard = <<>>
  /\ statsPending = {}
  /\ quizAttemptsDb = <<>>
  /\ OtherPagesUnused


(***************************************************************************)
(* Helpers.                                                                *)
(***************************************************************************)
Mounted == route = "/quiz"

\* setState of an unmounted component is dropped
SetState(new, old) == IF Mounted THEN new ELSE old

\* Array.prototype.sort with the comparator () => Math.random() - 0.5:
\* the result is some reordering of the same elements
Shuffle(s) ==
  { [i \in 1..Len(s) |-> s[p[i]]] :
      p \in { f \in [1..Len(s) -> 1..Len(s)] : \A i, j \in 1..Len(s) : f[i] = f[j] => i = j } }

\* the rows that the questions select can return (TakeQuiz.tsx 82-85): the query
\* has no order clause, so the backend is free to return the rows in any order
SelectQuestions(rows) == Shuffle(rows)

\* TakeQuiz.tsx 97-99
ShuffledQuestions(qs, quizData) ==
  IF quizData.randomize_questions THEN Shuffle(qs) ELSE {qs}

ShuffledOptionsOfAnyType(q, quizData) ==
  IF quizData.randomize_options THEN Shuffle(q.options) ELSE {q.options}

\* TakeQuiz.tsx 102-112: the option lists that one question can be served with
ShuffledOptions(q, quizData) ==
  IF quizData.randomize_options /\ q.question_type = "mcq"
    THEN Shuffle(q.options)
    ELSE {q.options}

\* the ways one question can be served
ServedQuestion(q, quizData) ==
  { [q EXCEPT !.options = o] : o \in ShuffledOptions(q, quizData) }

\* TakeQuiz.tsx 92-112: all values processedQuestions can have for the fetched rows
ProcessedQuestions(questionsData, quizData) ==
  UNION { { pq \in [1..Len(qs) -> UNION { ServedQuestion(qs[i], quizData) : i \in 1..Len(qs) }] :
              \A i \in 1..Len(qs) : pq[i] \in ServedQuestion(qs[i], quizData) } :
          qs \in ShuffledQuestions(questionsData, quizData) }

FetchFailedStays ==
  /\ toasts' = [toasts EXCEPT !.load_failed = @ + 1]
  /\ route' = route
  /\ loading' = SetState(FALSE, loading)
  /\ fetchPc' = "failed"

\* the catch and finally blocks of fetchQuizAndQuestions (TakeQuiz.tsx 129-135)
FetchFailed ==
  /\ toasts' = [toasts EXCEPT !.load_failed = @ + 1]
  /\ route' = "/student"
  /\ loading' = FALSE
  /\ fetchPc' = "failed"

(***************************************************************************)
(* fetchQuizAndQuestions, one action per backend response.                 *)
(***************************************************************************)
\* TakeQuiz.tsx 74-80: response of the quizzes select
FetchQuizResponse(error) ==
  /\ fetchPc = "quiz"
  /\ IF error
       THEN FetchFailed
       ELSE /\ fetchPc' = "questions"
            /\ UNCHANGED << toasts, route, loading >>
  /\ UNCHANGED << dbVars, attemptsDb, answersDb, quiz, questions, currentQuestionIndex,
                  answers, timeLeft, attemptId, submitting, showTimeUpDialog, subs, started >>

\* TakeQuiz.tsx 82-125: response of the questions select, up to the attempt insert
FetchQuestionsResponse(error) ==
  /\ fetchPc = "questions"
  /\ IF error
       THEN /\ FetchFailed
            /\ UNCHANGED << quiz, questions, timeLeft >>
       ELSE /\ quiz' = SetState(<<quizRow>>, quiz)
            /\ \E questionsData \in SelectQuestions(questionRows) :
                 \E pq \in ProcessedQuestions(questionsData, quizRow) :
                   questions' = SetState(pq, questions)
            /\ timeLeft' = SetState(quizRow.duration_minutes * SecondsPerMinute, timeLeft)
            /\ fetchPc' = "attempt"
            /\ UNCHANGED << toasts, route, loading >>
  /\ UNCHANGED << dbVars, attemptsDb, answersDb, currentQuestionIndex, answers,
                  attemptId, submitting, showTimeUpDialog, subs, started >>

\* quiz_attempts defaults (migration 42-52)
NewAttemptRow ==
  [submitted_at |-> FALSE, score |-> NullInt, total_points |-> NullInt,
   time_taken_seconds |-> NullInt, updates |-> 0]

AfterAttemptInsertAgain == "attempt"

\* fetchQuizAndQuestions has nothing left to await after the attempt insert
\* (TakeQuiz.tsx 127-135), and its effect runs once per quiz id (56-60)
AfterAttemptInsert == "done"

\* TakeQuiz.tsx 118-135: response of the attempt insert
InsertAttemptResponse(error) ==
  /\ fetchPc = "attempt"
  /\ IF error
       THEN /\ FetchFailed
            /\ UNCHANGED << attemptsDb, attemptId >>
       ELSE /\ attemptsDb' = Append(attemptsDb, NewAttemptRow)
            /\ attemptId' = SetState(Len(attemptsDb) + 1, attemptId)
            /\ loading' = SetState(FALSE, loading)
            /\ fetchPc' = AfterAttemptInsert
            /\ UNCHANGED << toasts, route >>
  /\ UNCHANGED << dbVars, answersDb, quiz, questions, currentQuestionIndex, answers,
                  timeLeft, submitting, showTimeUpDialog, subs, started >>


(***************************************************************************)
(* handleSubmit: grading (TakeQuiz.tsx 143-166).                           *)
(***************************************************************************)
\* answers[question.id] || ''
RecordedAnswer(ans, id) ==
  IF id \in DOMAIN ans THEN ans[id] ELSE <<>>

IsCorrectUntrimmed(studentAnswer, correct_answer) ==
  toLowerCase(studentAnswer) = toLowerCase(correct_answer)

\* TakeQuiz.tsx 154-155
IsCorrect(studentAnswer, correct_answer) ==
  toLowerCase(trim(studentAnswer)) = toLowerCase(trim(correct_answer))

\* TakeQuiz.tsx 156
PointsEarned(isCorrect, points) ==
  IF isCorrect THEN points ELSE 0

\* TakeQuiz.tsx 153-165: the row pushed for one question
AnswerRow(aid, question, ans) ==
  LET studentAnswer == RecordedAnswer(ans, question.id)
      isCorrect == IsCorrect(studentAnswer, question.correct_answer)
  IN  [attempt_id |-> aid,
       question_id |-> question.id,
       student_answer |-> studentAnswer,
       is_correct |-> isCorrect,
       points_earned |-> PointsEarned(isCorrect, question.points)]

\* TakeQuiz.tsx 149-166: answersData after the loop
AnswersData(aid, qs, ans) ==
  [i \in 1..Len(qs) |-> AnswerRow(aid, qs[i], ans)]

RECURSIVE SumSeq(_)
SumSeq(s) == IF s = <<>> THEN 0 ELSE Head(s) + SumSeq(Tail(s))

\* TakeQuiz.tsx 147, 157: score after the loop
Score(rows) == SumSeq([i \in 1..Len(rows) |-> rows[i].points_earned])

TotalPointsOfFirst(qs) == IF qs = <<>> THEN 0 ELSE qs[1].points * Len(qs)

\* TakeQuiz.tsx 148, 152: totalPoints after the loop
TotalPoints(qs) == SumSeq([i \in 1..Len(qs) |-> qs[i].points])

\* TakeQuiz.tsx 143-144
TimeTaken(quizData, tl) == quizData.duration_minutes * SecondsPerMinute - tl

\* TakeQuiz.tsx 138-171: handleSubmit up to its first await, called in a render
\* whose timeLeft is tl, next to the invocations inFlight
HandleSubmit(autoSubmit, tl, inFlight) ==
  IF attemptId = NoAttempt
    THEN /\ subs' = inFlight
         /\ UNCHANGED << submitting, started >>
    ELSE /\ submitting' = TRUE
         /\ started' = IF autoSubmit THEN [started EXCEPT !.timeout = @ + 1]
                                     ELSE [started EXCEPT !.manual = @ + 1]
         /\ subs' = Append(inFlight,
              [autoSubmit |-> autoSubmit,
               pc |-> "answers",
               attemptId |-> attemptId,
               answersData |-> AnswersData(attemptId, questions, answers),
               score |-> Score(AnswersData(attemptId, questions, answers)),
               totalPoints |-> TotalPoints(questions),
               timeTaken |-> TimeTaken(quiz[1], tl),
               ticks |-> 0])

(***************************************************************************)
(* The countdown (TakeQuiz.tsx 62-70).                                     *)
(***************************************************************************)
TimeIsUpEarly(tl, aid) == tl <= 1 /\ aid # NoAttempt

\* the else-if branch of the effect, in the render where timeLeft became tl
TimeIsUp(tl, aid) == tl = 0 /\ aid # NoAttempt

\* the invocations in flight after one more second
Waiting(ss) == [n \in DOMAIN ss |-> [ss[n] EXCEPT !.ticks = @ + 1]]

\* the timer callback setTimeLeft(timeLeft - 1) and the effect run it causes
Tick ==
  /\ Mounted
  /\ timeLeft > 0
  /\ \A n \in DOMAIN subs : subs[n].ticks < MaxPendingTicks
  /\ timeLeft' = timeLeft - 1
  /\ IF TimeIsUp(timeLeft', attemptId)
       THEN /\ showTimeUpDialog' = TRUE
            /\ HandleSubmit(TRUE, timeLeft', Waiting(subs))
       ELSE /\ subs' = Waiting(subs)
            /\ UNCHANGED << showTimeUpDialog, submitting, started >>
  /\ UNCHANGED << dbVars, attemptsDb, answersDb, route, toasts, fetchPc, quiz, questions,
                  currentQuestionIndex, answers, attemptId, loading >>


(***************************************************************************)
(* handleSubmit: the two writes (TakeQuiz.tsx 168-197).                    *)
(***************************************************************************)
RECURSIVE BagOfSeq(_)
BagOfSeq(rows) ==
  IF rows = <<>> THEN EmptyBag ELSE SetToBag({Head(rows)}) (+) BagOfSeq(Tail(rows))

AfterAnswersInsertUnchecked(answersError) == "update"

\* where handleSubmit continues after the answers insert (TakeQuiz.tsx 173)
AfterAnswersInsert(answersError) ==
  IF answersError THEN "failed" ELSE "update"

\* where handleSubmit continues after the attempt update (TakeQuiz.tsx 186)
AfterAttemptUpdate(updateError) ==
  IF updateError THEN "failed" ELSE "done"

\* the catch and finally blocks of handleSubmit (TakeQuiz.tsx 192-197)
SubmitFailed ==
  /\ toasts' = [toasts EXCEPT !.submit_failed = @ + 1]
  /\ submitting' = SetState(FALSE, submitting)
  /\ UNCHANGED route

\* handleSubmit invocation n has returned
Finished(n) == SubSeq(subs, 1, n - 1) \o SubSeq(subs, n + 1, Len(subs))

\* TakeQuiz.tsx 169-184: response of the student_answers insert
AnswersInsertResponse(n, answersError) ==
  /\ n \in DOMAIN subs
  /\ subs[n].pc = "answers"
  /\ answersDb' = IF answersError THEN answersDb
                  ELSE answersDb (+) BagOfSeq(subs[n].answersData)
  /\ IF AfterAnswersInsert(answersError) = "failed"
       THEN /\ SubmitFailed
            /\ subs' = Finished(n)
       ELSE /\ subs' = [subs EXCEPT ![n].pc = AfterAnswersInsert(answersError)]
            /\ UNCHANGED << toasts, submitting, route >>
  /\ UNCHANGED << dbVars, attemptsDb, fetchPc, quiz, questions, currentQuestionIndex,
                  answers, timeLeft, attemptId, loading, showTimeUpDialog, started >>

\* the update of TakeQuiz.tsx 176-184 applied to the row
UpdatedAttempt(row, sub) ==
  [row EXCEPT !.submitted_at = TRUE,
              !.score = sub.score,
              !.total_points = sub.totalPoints,
              !.time_taken_seconds = sub.timeTaken,
              !.updates = @ + 1]

\* TakeQuiz.tsx 176-197: response of the quiz_attempts update
AttemptUpdateResponse(n, updateError) ==
  /\ n \in DOMAIN subs
  /\ subs[n].pc = "update"
  /\ attemptsDb' = IF updateError THEN attemptsDb
                   ELSE [attemptsDb EXCEPT ![subs[n].attemptId] = UpdatedAttempt(@, subs[n])]
  /\ subs' = Finished(n)
  /\ IF AfterAttemptUpdate(updateError) = "failed"
       THEN SubmitFailed
       ELSE /\ toasts' = IF subs[n].autoSubmit THEN toasts
                         ELSE [toasts EXCEPT !.submit_ok = @ + 1]
            /\ route' = "/results"
            /\ submitting' = SetState(FALSE, submitting)
  /\ UNCHANGED << dbVars, answersDb, fetchPc, quiz, questions, currentQuestionIndex,
                  answers, timeLeft, attemptId, loading, showTimeUpDialog, started >>

(***************************************************************************)
(* The student's actions on the rendered view (TakeQuiz.tsx 206-341).      *)
(***************************************************************************)
RenderedWhileLoading == Mounted /\ quiz # <<>> /\ Len(questions) # 0

\* the main view is rendered (TakeQuiz.tsx 206-220)
Rendered == Mounted /\ ~loading /\ quiz # <<>> /\ Len(questions) # 0

\* the page under the modal Time's Up dialog takes no input
PageActive == Rendered /\ ~showTimeUpDialog

\* TakeQuiz.tsx 222
CurrentQuestion == questions[currentQuestionIndex + 1]

\* the values the input of a question can produce (TakeQuiz.tsx 254-301)
AnswerChoices(q) ==
  CASE q.question_type = "mcq" -> { q.options[i] : i \in 1..Len(q.options) }
    [] q.question_type = "true_false" -> { StrTrue, StrFalse }
    [] q.question_type = "short_answer" -> TypedAnswers \cup { <<>> }

\* onValueChange / onChange (TakeQuiz.tsx 257-260, 276-279, 295-298)
SetAnswer(value) ==
  /\ PageActive
  /\ value \in AnswerChoices(CurrentQuestion)
  /\ RecordedAnswer(answers, CurrentQuestion.id) # value \/ CurrentQuestion.id \notin DOMAIN answers
  /\ answers' = [id \in DOMAIN answers \cup {CurrentQuestion.id} |->
                   IF id = CurrentQuestion.id THEN value ELSE answers[id]]
  /\ UNCHANGED << dbVars, attemptsDb, answersDb, route, toasts, fetchPc, quiz, questions,
                  currentQuestionIndex, timeLeft, attemptId, loading, submitting,
                  showTimeUpDialog, subs, started >>

OnAnyQuestion(index, qs) == TRUE

\* TakeQuiz.tsx 304: the else branch of the button row, the last question
OnLastQuestion(index, qs) == ~(index < Len(qs) - 1)

\* Next Question button (TakeQuiz.tsx 304-311)
NextQuestion ==
  /\ PageActive
  /\ currentQuestionIndex < Len(questions) - 1
  /\ currentQuestionIndex' = currentQuestionIndex + 1
  /\ UNCHANGED << dbVars, attemptsDb, answersDb, route, toasts, fetchPc, quiz, questions,
                  answers, timeLeft, attemptId, loading, submitting, showTimeUpDialog, subs,
                  started >>

\* Submit Quiz button (TakeQuiz.tsx 313-320)
ManualSubmit ==
  /\ PageActive
  /\ OnLastQuestion(currentQuestionIndex, questions)
  /\ ~submitting
  /\ started.manual < MaxManualSubmits
  /\ HandleSubmit(FALSE, timeLeft, subs)
  /\ UNCHANGED << dbVars, attemptsDb, answersDb, route, toasts, fetchPc, quiz, questions,
                  currentQuestionIndex, answers, timeLeft, attemptId, loading,
                  showTimeUpDialog >>

\* View Results button of the Time's Up dialog (TakeQuiz.tsx 327-341)
ViewResults ==
  /\ Rendered
  /\ showTimeUpDialog
  /\ route' = "/results"
  /\ UNCHANGED << dbVars, attemptsDb, answersDb, toasts, fetchPc, quiz, questions,
                  currentQuestionIndex, answers, timeLeft, attemptId, loading, submitting,
                  showTimeUpDialog, subs, started >>

\* the student leaves the page (browser navigation) while no submission is in
\* flight: the component unmounts and the cleanup of the countdown effect clears
\* the timer (TakeQuiz.tsx 65); a view left with a submission in flight behaves
\* as after View Results
Abandon ==
  /\ Mounted
  /\ subs = <<>>
  /\ route' = "/dashboard"
  /\ UNCHANGED << dbVars, attemptsDb, answersDb, toasts, fetchPc, quiz, questions,
                  currentQuestionIndex, answers, timeLeft, attemptId, loading, submitting,
                  showTimeUpDialog, subs, started >>

Next ==
  \/ \E error \in BOOLEAN : FetchQuizResponse(error)
  \/ \E error \in BOOLEAN : FetchQuestionsResponse(error)
  \/ \E error \in BOOLEAN : InsertAttemptResponse(error)
  \/ Tick
  \/ \E value \in TypedAnswers \cup { <<>>, StrTrue, StrFalse, StrA, StrB } : SetAnswer(value)
  \/ NextQuestion
  \/ ManualSubmit
  \/ ViewResults
  \/ Abandon
  \/ \E n \in DOMAIN subs, error \in BOOLEAN : AnswersInsertResponse(n, error)
  \/ \E n \in DOMAIN subs, error \in BOOLEAN : AttemptUpdateResponse(n, error)

Spec == Init /\ [][Next]_vars

TypeOK ==
  /\ timeLeft \in { d * SecondsPerMinute : d \in Durations } \cup 0..SecondsPerMinute
  /\ attemptId \in 0..Len(attemptsDb)
  /\ currentQuestionIndex \in 0..Len(Catalogue)


(***************************************************************************)
(* Users and the row-level policies of table quizzes                       *)
(* (migration 20251118022537, lines 76-124).                               *)
(***************************************************************************)
\* the admin who authors; admins have no class
Admin == [id |-> "admin", role |-> "admin", class |-> NULL]

\* registered students: StudentRegister requires a class from its list
Students ==
  { [id |-> "s1", role |-> "student", class |-> "JSS 1"],
    [id |-> "s2", role |-> "student", class |-> "SS 1"] }

\* a = b of SQL: never true when one side is NULL
SqlEq(a, b) == a # NULL /\ b # NULL /\ a = b

\* function has_role
has_role(user, role) == user.role = role

\* policy "Admins can create quizzes"
AdminsCanCreateQuizzes(user, row) == has_role(user, "admin")

\* policy "Admins can update their own quizzes"
AdminsCanUpdateTheirOwnQuizzes(user, row) ==
  row.created_by = user.id /\ has_role(user, "admin")

\* policy "Admins can delete their own quizzes"
AdminsCanDeleteTheirOwnQuizzes(user, row) ==
  row.created_by = user.id /\ has_role(user, "admin")

\* policy "Students can view quizzes for their class", the only select policy
StudentsCanViewQuizzesForTheirClass(user, row) ==
  row.is_active /\ (SqlEq(row.class, user.class) \/ row.created_by = user.id)

(***************************************************************************)
(* The authoring form (src/src/pages/CreateQuiz.tsx).                      *)
(***************************************************************************)
StrBlank == <<" ">>

StrQ == <<"Q">>

StrT == <<"T">>

\* what the admin types into the form
Titles == { StrT }

\* the duration field takes any integer: min="1" is an attribute of an input
\* that no form submission validates
DurationInputs == { -1 }

QuestionTexts == { StrQ }

\* a single blank is the least text that passes !correct_answer
CorrectAnswers == { StrBlank }

\* parseInt of the points field
PointInputs == { 0 }

\* slot and text typed into an option field
OptionInputs == { <<1, StrA>>, <<2, StrA>>, <<3, StrA>>, <<4, StrB>>, <<4, StrBlank>> }

QuestionTypes == { "mcq", "true_false", "short_answer" }

\* CreateQuiz.tsx 289: the option slots after a change of question type
OptionsOfType(v) ==
  IF v = "true_false" THEN << StrTrue, StrFalse >> ELSE << <<>>, <<>>, <<>>, <<>> >>

\* CreateQuiz.tsx 39-45 and 71-77
EmptyQuestion ==
  [question_text |-> <<>>, question_type |-> "mcq", options |-> OptionsOfType("mcq"),
   correct_answer |-> <<>>, points |-> 1]

\* CreateQuiz.tsx 27-45
InitCreateQuiz ==
  /\ createQuiz = [loading |-> FALSE, title |-> <<>>, duration |-> DefaultDuration,
                   isActive |-> TRUE, randomizeQuestions |-> TRUE,
                   randomizeOptions |-> TRUE, questions |-> <<>>,
                   currentQuestion |-> EmptyQuestion, toast |-> "none"]
  /\ publish = [pc |-> "idle"]
  /\ quizzesDb = <<>>
  /\ questionsDb = <<>>
  /\ studentDashboard = [s \in Students |-> <<>>]

\* the form is mounted
Authoring == route = "/admin/create-quiz"

\* the admin edits the form while no Create Quiz request is in flight
Editing == Authoring /\ publish.pc = "idle"

\* the parts of the state that the authoring flow leaves alone
notCreate == << quizRow, questionRows, attemptsDb, answersDb, toasts, fetchPc, quiz,
                questions, currentQuestionIndex, answers, timeLeft, attemptId, loading,
                submitting, showTimeUpDialog, subs, started, adminVars, otherVars >>

\* a field of the form is set: title, duration, active switch
SetField(field, value) ==
  /\ Editing
  /\ createQuiz[field] # value
  /\ createQuiz' = [createQuiz EXCEPT ![field] = value]
  /\ UNCHANGED << route, publish, quizzesDb, questionsDb, studentDashboard, notCreate >>

\* CreateQuiz.tsx 164
setTitle(value) == SetField("title", value)

\* CreateQuiz.tsx 197
setDuration(value) == SetField("duration", value)

\* CreateQuiz.tsx 217
setIsActive(value) == SetField("isActive", value)

\* a field of the question being edited is set
SetCurrentQuestion(q) ==
  /\ Editing
  /\ createQuiz.currentQuestion # q
  /\ createQuiz' = [createQuiz EXCEPT !.currentQuestion = q]
  /\ UNCHANGED << route, publish, quizzesDb, questionsDb, studentDashboard, notCreate >>

\* CreateQuiz.tsx 286-290
setQuestionType(v) ==
  SetCurrentQuestion([createQuiz.currentQuestion EXCEPT
                        !.question_type = v, !.options = OptionsOfType(v)])

\* CreateQuiz.tsx 307-310
setQuestionText(v) ==
  SetCurrentQuestion([createQuiz.currentQuestion EXCEPT !.question_text = v])

\* CreateQuiz.tsx 316-335: the option fields exist for multiple choice only;
\* the admin fills them from the first to the last
setOption(i, v) ==
  /\ createQuiz.currentQuestion.question_type = "mcq"
  /\ \A j \in 1..(i - 1) : createQuiz.currentQuestion.options[j] # <<>>
  /\ SetCurrentQuestion([createQuiz.currentQuestion EXCEPT !.options[i] = v])

\* CreateQuiz.tsx 341-344
setCorrectAnswer(v) ==
  SetCurrentQuestion([createQuiz.currentQuestion EXCEPT !.correct_answer = v])

\* CreateQuiz.tsx 361-364
setPoints(v) ==
  SetCurrentQuestion([createQuiz.currentQuestion EXCEPT !.points = v])

\* CreateQuiz.tsx 48: !question_text || !correct_answer
MissingField(q) == q.question_text = <<>> \/ q.correct_answer = <<>>

MissingOptionIgnored(q) == FALSE

\* CreateQuiz.tsx 53-54
MissingOption(q) ==
  q.question_type = "mcq" /\ \E i \in DOMAIN q.options : trim(q.options[i]) = <<>>

\* CreateQuiz.tsx 59-68; the id (Math.random().toString()) only serves
\* handleRemoveQuestion: ids are distinct, so a listed question is identified
\* by its position
NewQuestion(q) ==
  [question_text |-> q.question_text,
   question_type |-> q.question_type,
   options |-> IF q.question_type = "true_false" THEN << StrTrue, StrFalse >>
               ELSE q.options,
   correct_answer |-> q.correct_answer,
   points |-> IF q.points = 0 THEN 1 ELSE q.points]

\* CreateQuiz.tsx 47-79
handleAddQuestion ==
  /\ Editing
  /\ Len(createQuiz.questions) < MaxQuestions
  /\ LET q == createQuiz.currentQuestion
     IN  createQuiz' =
           IF MissingField(q)
             THEN [createQuiz EXCEPT !.toast = "Please fill in question text and correct answer"]
           ELSE IF MissingOption(q)
             THEN [createQuiz EXCEPT !.toast = "Please fill in all options for MCQ"]
           ELSE [createQuiz EXCEPT
                   !.questions = Append(@, NewQuestion(q)),
                   !.currentQuestion = EmptyQuestion,
                   !.toast = "Question added"]
  /\ UNCHANGED << route, publish, quizzesDb, questionsDb, studentDashboard, notCreate >>

\* CreateQuiz.tsx 81-83: the question at position i is filtered out
handleRemoveQuestion(i) ==
  /\ Editing
  /\ i \in DOMAIN createQuiz.questions
  /\ createQuiz' = [createQuiz EXCEPT
                      !.questions = SubSeq(@, 1, i - 1) \o SubSeq(@, i + 1, Len(@))]
  /\ UNCHANGED << route, publish, quizzesDb, questionsDb, studentDashboard, notCreate >>

\* the row of the quizzes insert (CreateQuiz.tsx 96-106); column class is not
\* among the inserted columns and has no default (migration 20251118022537, 35)
QuizInsert(form) ==
  [title |-> form.title,
   duration_minutes |-> form.duration,
   is_active |-> form.isActive,
   randomize_questions |-> form.randomizeQuestions,
   randomize_options |-> form.randomizeOptions,
   created_by |-> Admin.id,
   class |-> NULL]

\* CreateQuiz.tsx 113-120
QuestionsData(qs, quizId) ==
  [i \in DOMAIN qs |->
     [quiz_id |-> quizId,
      question_text |-> qs[i].question_text,
      question_type |-> qs[i].question_type,
      options |-> qs[i].options,
      correct_answer |-> qs[i].correct_answer,
      points |-> qs[i].points]]

\* Create Quiz button (CreateQuiz.tsx 377-383) and handleSubmit up to its first
\* await (CreateQuiz.tsx 85-108)
handleSubmit ==
  /\ Authoring
  /\ ~createQuiz.loading
  /\ Len(createQuiz.questions) # 0
  /\ Len(quizzesDb) < MaxQuizzes
  /\ IF createQuiz.title = <<>>
       THEN /\ createQuiz' =
                 [createQuiz EXCEPT !.toast = "Please provide title and at least one question"]
            /\ UNCHANGED publish
       ELSE /\ createQuiz' = [createQuiz EXCEPT !.loading = TRUE]
            /\ publish' = [pc |-> "quiz",
                           insert |-> QuizInsert(createQuiz),
                           questions |-> createQuiz.questions]
  /\ UNCHANGED << route, quizzesDb, questionsDb, studentDashboard, notCreate >>

\* insert(...).select() returns the new row, so the row has to pass the insert
\* policy and the select policy of the caller
InsertReturningAllowed(user, row) ==
  AdminsCanCreateQuizzes(user, row) /\ StudentsCanViewQuizzesForTheirClass(user, row)

AfterQuizInsertUnchecked(quizError) == "questions"

\* where handleSubmit continues after the quiz insert (CreateQuiz.tsx 110)
AfterQuizInsert(quizError) ==
  IF quizError THEN "failed" ELSE "questions"

\* the catch and finally blocks of handleSubmit (CreateQuiz.tsx 130-135)
PublishFailed ==
  /\ createQuiz' = [createQuiz EXCEPT
                      !.toast = "Failed to create quiz",
                      !.loading = IF Authoring THEN FALSE ELSE @]
  /\ publish' = [pc |-> "idle"]
  /\ UNCHANGED route

\* CreateQuiz.tsx 94-110: response of the quizzes insert
QuizInsertResponse(error) ==
  /\ publish.pc = "quiz"
  /\ LET quizError == error \/ ~InsertReturningAllowed(Admin, publish.insert)
     IN  /\ quizzesDb' = IF quizError THEN quizzesDb ELSE Append(quizzesDb, publish.insert)
         /\ IF AfterQuizInsert(quizError) = "failed"
              THEN PublishFailed
              ELSE /\ publish' = [pc |-> "questions",
                                  questionsData |->
                                    QuestionsData(publish.questions,
                                                  IF quizError THEN 0 ELSE Len(quizzesDb'))]
                   /\ UNCHANGED << createQuiz, route >>
  /\ UNCHANGED << questionsDb, studentDashboard, notCreate >>

\* CreateQuiz.tsx 122-135: response of the questions insert
QuestionsInsertResponse(questionsError) ==
  /\ publish.pc = "questions"
  /\ questionsDb' = IF questionsError THEN questionsDb
                    ELSE questionsDb \o publish.questionsData
  /\ IF questionsError
       THEN PublishFailed
       ELSE /\ createQuiz' = [createQuiz EXCEPT
                                !.toast = "Quiz created successfully!",
                                !.loading = IF Authoring THEN FALSE ELSE @]
            /\ publish' = [pc |-> "idle"]
            /\ route' = "/admin"
  /\ UNCHANGED << quizzesDb, studentDashboard, notCreate >>

\* Back to Dashboard and Cancel buttons (CreateQuiz.tsx 142, 384)
Cancel ==
  /\ Authoring
  /\ route' = "/admin"
  /\ UNCHANGED << createVars, notCreate >>

\* the ids of the rows of quizzes that a select of user returns, newest first
\* (StudentDashboard.tsx 41-45, filtered by the select policy)
ActiveQuizzesOf(user) ==
  LET visible == { id \in DOMAIN quizzesDb :
                     /\ StudentsCanViewQuizzesForTheirClass(user, quizzesDb[id])
                     /\ quizzesDb[id].is_active }
      RECURSIVE Descending(_)
      Descending(S) ==
        IF S = {} THEN <<>>
        ELSE LET top == CHOOSE x \in S : \A y \in S : y <= x
             IN  <<top>> \o Descending(S \ {top})
  IN  Descending(visible)

\* StudentDashboard.tsx 39-54: response of the quizzes select of a student's
\* dashboard, for each time the dashboard is opened; studentDashboard holds the
\* useState quizzes of each student
fetchQuizzes(student, error) ==
  /\ studentDashboard' =
       [studentDashboard EXCEPT ![student] = IF error THEN @ ELSE ActiveQuizzesOf(student)]
  /\ UNCHANGED << route, createQuiz, publish, quizzesDb, questionsDb, notCreate >>

\* the admin dashboard before it is mounted
AdminDashboardUnused ==
  /\ adminDashboard = [quizzes |-> <<>>, stats |-> <<>>, loading |-> TRUE]
  /\ statsPending = {}
  /\ quizAttemptsDb = <<>>

\* the TakeQuiz component before it is mounted (TakeQuiz.tsx 46-54)
TakeQuizUnused ==
  /\ quizRow = [duration_minutes |-> DefaultDuration, randomize_questions |-> TRUE,
                randomize_options |-> TRUE]
  /\ questionRows = <<>>
  /\ attemptsDb = <<>>
  /\ answersDb = EmptyBag
  /\ toasts = [load_failed |-> 0, submit_failed |-> 0, submit_ok |-> 0]
  /\ fetchPc = "quiz"
  /\ quiz = <<>>
  /\ questions = <<>>
  /\ currentQuestionIndex = 0
  /\ answers = <<>>
  /\ timeLeft = 0
  /\ attemptId = NoAttempt
  /\ loading = TRUE
  /\ submitting = FALSE
  /\ showTimeUpDialog = FALSE
  /\ subs = <<>>
  /\ started = [manual |-> 0, timeout |-> 0]

InitCreate ==
  /\ route = "/admin/create-quiz"
  /\ InitCreateQuiz
  /\ TakeQuizUnused
  /\ AdminDashboardUnused
  /\ OtherPagesUnused

NextCreate ==
  \/ \E value \in Titles : setTitle(value)
  \/ \E value \in DurationInputs : setDuration(value)
  \/ \E value \in BOOLEAN : setIsActive(value)
  \/ \E v \in QuestionTypes : setQuestionType(v)
  \/ \E v \in QuestionTexts : setQuestionText(v)
  \/ \E o \in OptionInputs : setOption(o[1], o[2])
  \/ \E v \in CorrectAnswers : setCorrectAnswer(v)
  \/ \E v \in PointInputs : setPoints(v)
  \/ handleAddQuestion
  \/ \E i \in 1..MaxQuestions : handleRemoveQuestion(i)
  \/ handleSubmit
  \/ \E error \in BOOLEAN : QuizInsertResponse(error)
  \/ \E error \in BOOLEAN : QuestionsInsertResponse(error)
  \/ Cancel
  \/ \E student \in Students, error \in BOOLEAN : fetchQuizzes(student, error)

SpecCreate == InitCreate /\ [][NextCreate]_vars

(***************************************************************************)
(* The admin dashboard (src/src/pages/AdminDashboard.tsx).                 *)
(***************************************************************************)
\* JavaScript numbers as far as fetchQuizStats produces them: NaN, or the
\* rational n/d in lowest terms with d > 0.  Rounding of doubles is left
\* out, and so is x / 0 for x # 0 (an infinity), which needs a score other
\* than 0 on a quiz of 0 points
NaN == [n |-> 0, d |-> 0]

Abs(x) == IF x < 0 THEN -x ELSE x

RECURSIVE GCD(_, _)
GCD(a, b) == IF b = 0 THEN a ELSE GCD(b, a % b)

Number(n, d) ==
  IF d = 0 THEN NaN
  ELSE LET g == GCD(Abs(n), Abs(d))
           s == IF d < 0 THEN -1 ELSE 1
       IN  [n |-> (s * n) \div g, d |-> Abs(d) \div g]

\* x / y
Divide(x, y) ==
  IF x = NaN \/ y = NaN THEN NaN ELSE Number(x.n * y.d, x.d * y.n)

\* x * y
Times(x, y) ==
  IF x = NaN \/ y = NaN THEN NaN ELSE Number(x.n * y.n, x.d * y.d)

\* x + y
Plus(x, y) ==
  IF x = NaN \/ y = NaN THEN NaN ELSE Number(x.n * y.d + y.n * x.d, x.d * y.d)

\* x >= y: false when either side is NaN
GreaterOrEqual(x, y) ==
  x # NaN /\ y # NaN /\ x.n * y.d >= y.n * x.d

\* scores.reduce((a, b) => a + b, 0)
RECURSIVE ReduceSum(_)
ReduceSum(scores) ==
  IF scores = <<>> THEN Number(0, 1)
  ELSE Plus(ReduceSum(SubSeq(scores, 1, Len(scores) - 1)), scores[Len(scores)])

\* Math.max(...scores) of a non-empty list: NaN when any argument is NaN
MathMax(scores) ==
  IF \E i \in DOMAIN scores : scores[i] = NaN THEN NaN
  ELSE scores[CHOOSE i \in DOMAIN scores :
                \A j \in DOMAIN scores : GreaterOrEqual(scores[i], scores[j])]

\* what a finished TakeQuiz.handleSubmit writes as << score, total_points >>:
\* a quiz whose question batch was never written, and the quiz of the
\* end-to-end scenario with one and with no wrong answer
AttemptOutcomes == { <<0, 0>>, <<2, 3>>, <<3, 3>> }

\* the quizzes behind the dashboard: two active quizzes of the admin, with
\* the class label of the students who take them
AuthoredQuizzes ==
  [id \in 1..2 |->
     [title |-> StrT, duration_minutes |-> 1, is_active |-> TRUE,
      randomize_questions |-> FALSE, randomize_options |-> FALSE,
      created_by |-> Admin.id, class |-> "JSS 1"]]

\* policy "Admins can view all attempts for their quizzes"
\* (migration 20251117081655, lines 152-160)
AdminsCanViewAllAttemptsForTheirQuizzes(user, row) ==
  \E id \in DOMAIN quizzesDb :
    id = row.quiz_id /\ quizzesDb[id].created_by = user.id /\ user.role = "admin"

\* policy "Students can view their own attempts"
\* (migration 20251117081655, lines 140-142)
StudentsCanViewTheirOwnAttempts(user, row) == row.student_id = user.id

\* AdminDashboard.tsx 40-42
MountedAdminDashboard ==
  [quizzes |-> <<>>, stats |-> <<>>, loading |-> TRUE, toast |-> "none"]

InitAdminDashboard ==
  /\ adminDashboard = MountedAdminDashboard
  /\ statsPending = {}
  /\ quizAttemptsDb = <<>>

notAdmin == << quizRow, questionRows, attemptsDb, answersDb, toasts, fetchPc, quiz,
               questions, currentQuestionIndex, answers, timeLeft, attemptId,
               loading, submitting, showTimeUpDialog, subs, started,
               createQuiz, publish, questionsDb, studentDashboard, otherVars >>

\* newest first: rows are created in the order of their ids
RECURSIVE NewestFirst(_)
NewestFirst(S) ==
  IF S = {} THEN <<>>
  ELSE LET top == CHOOSE x \in S : \A y \in S : y <= x
       IN  <<top>> \o NewestFirst(S \ {top})

\* AdminDashboard.tsx 52-55: the rows of quizzes the caller may read
SelectQuizzes(user) ==
  NewestFirst({ id \in DOMAIN quizzesDb :
                  StudentsCanViewQuizzesForTheirClass(user, quizzesDb[id]) })

\* AdminDashboard.tsx 50-69: response of the quizzes select issued at mount;
\* on success one fetchQuizStats is started for every row
AdminFetchQuizzes(error) ==
  /\ route = "/admin/dashboard"
  /\ adminDashboard.loading
  /\ IF error
       THEN /\ adminDashboard' = [adminDashboard EXCEPT
                                    !.loading = FALSE, !.toast = "Failed to load tests"]
            /\ UNCHANGED statsPending
       ELSE LET data == SelectQuizzes(Admin)
            IN  /\ adminDashboard' = [adminDashboard EXCEPT
                                        !.quizzes = data, !.loading = FALSE]
                /\ statsPending' = { data[i] : i \in DOMAIN data }
  /\ UNCHANGED << route, quizzesDb, quizAttemptsDb, notAdmin >>

\* AdminDashboard.tsx 73-77: the submitted attempts of a quiz that the caller
\* may read, as positions of quiz_attempts
SelectSubmittedAttempts(user, quizId) ==
  LET RECURSIVE Ascending(_)
      Ascending(S) ==
        IF S = {} THEN <<>>
        ELSE LET low == CHOOSE x \in S : \A y \in S : x <= y
             IN  <<low>> \o Ascending(S \ {low})
  IN  Ascending({ i \in DOMAIN quizAttemptsDb :
                    /\ \/ AdminsCanViewAllAttemptsForTheirQuizzes(user, quizAttemptsDb[i])
                       \/ StudentsCanViewTheirOwnAttempts(user, quizAttemptsDb[i])
                    /\ quizAttemptsDb[i].quiz_id = quizId
                    /\ quizAttemptsDb[i].submitted_at # NullInt })

\* AdminDashboard.tsx 81-86
QuizStats(data) ==
  LET attempts == Len(data)
      scores == [i \in DOMAIN data |->
                   Times(Divide(Number(data[i].score, 1), Number(data[i].total_points, 1)),
                         Number(100, 1))]
      avg_score == IF Len(scores) > 0
                     THEN Divide(ReduceSum(scores), Number(Len(scores), 1))
                     ELSE Number(0, 1)
      highest_score == IF Len(scores) > 0 THEN MathMax(scores) ELSE Number(0, 1)
  IN  [attempts |-> attempts, avg_score |-> avg_score, highest_score |-> highest_score]

SetStatsOfMount(prev, quizId, value) == [q \in {quizId} |-> value]

\* AdminDashboard.tsx 88-91: { ...prev, [quizId]: value }
SetStats(prev, quizId, value) ==
  [q \in DOMAIN prev \cup {quizId} |-> IF q = quizId THEN value ELSE prev[q]]

\* AdminDashboard.tsx 71-95: response of the quiz_attempts select of one quiz
fetchQuizStats(quizId, error) ==
  /\ quizId \in statsPending
  /\ statsPending' = statsPending \ {quizId}
  /\ IF error
       THEN UNCHANGED adminDashboard
       ELSE LET rows == SelectSubmittedAttempts(Admin, quizId)
                data == [i \in DOMAIN rows |-> quizAttemptsDb[rows[i]]]
            IN  adminDashboard' =
                  [adminDashboard EXCEPT
                     !.stats = SetStats(@, quizId, QuizStats(data))]
  /\ UNCHANGED << route, quizzesDb, quizAttemptsDb, notAdmin >>

\* a student starts a quiz (TakeQuiz.tsx 118-125)
AttemptStarted(quizId) ==
  /\ Len(quizAttemptsDb) < MaxAttempts
  /\ quizAttemptsDb' = Append(quizAttemptsDb,
                              [quiz_id |-> quizId, student_id |-> "s1",
                               submitted_at |-> NullInt, score |-> NullInt,
                               total_points |-> NullInt])
  /\ UNCHANGED << route, quizzesDb, adminDashboard, statsPending, notAdmin >>

\* the attempt update of a finished handleSubmit (TakeQuiz.tsx 176-184)
AttemptSubmitted(i, outcome) ==
  /\ i \in DOMAIN quizAttemptsDb
  /\ quizAttemptsDb[i].submitted_at = NullInt
  /\ quizAttemptsDb' = [quizAttemptsDb EXCEPT
                          ![i].submitted_at = 1,
                          ![i].score = outcome[1],
                          ![i].total_points = outcome[2]]
  /\ UNCHANGED << route, quizzesDb, adminDashboard, statsPending, notAdmin >>

InitAdmin ==
  /\ route = "/admin/dashboard"
  /\ InitAdminDashboard
  /\ quizzesDb = AuthoredQuizzes
  /\ createQuiz = <<>>
  /\ publish = [pc |-> "idle"]
  /\ questionsDb = <<>>
  /\ studentDashboard = <<>>
  /\ TakeQuizUnused
  /\ OtherPagesUnused

NextAdmin ==
  \/ \E error \in BOOLEAN : AdminFetchQuizzes(error)
  \/ \E quizId \in DOMAIN AuthoredQuizzes, error \in BOOLEAN : fetchQuizStats(quizId, error)
  \/ \E quizId \in DOMAIN AuthoredQuizzes : AttemptStarted(quizId)
  \/ \E i \in 1..MaxAttempts, outcome \in AttemptOutcomes : AttemptSubmitted(i, outcome)

SpecAdmin == InitAdmin /\ [][NextAdmin]_vars

(***************************************************************************)
(* Registration (src/src/pages/StudentRegister.tsx).                       *)
(***************************************************************************)
\* what a student types as name: nothing, a name, a single blank
FullNames == { <<>>, StrT, StrBlank }

\* the entries of CLASSES that the class select offers
ClassChoices == { "JSS 1", "SS 1" }

\* what the registration form leaves alone
notRegister == << quizRow, questionRows, attemptsDb, answersDb, toasts, fetchPc, quiz,
                  questions, currentQuestionIndex, answers, timeLeft, attemptId, loading,
                  submitting, showTimeUpDialog, subs, started, createVars, adminVars,
                  results, studentAttempts, auth, history >>

\* StudentRegister.tsx 19-21; '' is the class not yet selected
InitStudentRegister ==
  /\ studentRegister = [fullName |-> <<>>, selectedClass |-> "", loading |-> FALSE,
                        toast |-> "none"]
  /\ signUp = [pc |-> "idle"]

Registering == route = "/"

\* StudentRegister.tsx 84
setFullName(value) ==
  /\ Registering
  /\ studentRegister.fullName # value
  /\ studentRegister' = [studentRegister EXCEPT !.fullName = value]
  /\ UNCHANGED << route, signUp, notRegister >>

\* StudentRegister.tsx 92
setSelectedClass(value) ==
  /\ Registering
  /\ studentRegister.selectedClass # value
  /\ studentRegister' = [studentRegister EXCEPT !.selectedClass = value]
  /\ UNCHANGED << route, signUp, notRegister >>

MissingRegistrationFieldIgnored(form) == FALSE

\* StudentRegister.tsx 27
MissingRegistrationField(form) == form.fullName = <<>> \/ form.selectedClass = ""


\* StudentRegister.tsx 44-48
SignUpData(form) ==
  [full_name |-> form.fullName, role |-> "student", class |-> form.selectedClass]

\* Start Test button (StudentRegister.tsx 106-112) and handleSubmit up to its
\* await (24-50).  The handler is entered for an empty name too: the required
\* attribute of the name input stops only a submission the browser validates
RegisterSubmit ==
  /\ Registering
  /\ ~studentRegister.loading
  /\ IF MissingRegistrationField(studentRegister)
       THEN /\ studentRegister' = [studentRegister EXCEPT !.toast = "Please fill in all fields"]
            /\ UNCHANGED signUp
       ELSE /\ studentRegister' = [studentRegister EXCEPT !.loading = TRUE]
            /\ signUp' = [pc |-> "pending", data |-> SignUpData(studentRegister)]
  /\ UNCHANGED << route, notRegister >>

\* StudentRegister.tsx 52-60: response of supabase.auth.signUp; navigate('/')
\* stays on the route of the form
SignUpResponse(error) ==
  /\ signUp.pc = "pending"
  /\ signUp' = [pc |-> "idle"]
  /\ studentRegister' =
       IF Registering
         THEN [studentRegister EXCEPT
                 !.loading = FALSE,
                 !.toast = IF error THEN "Error during registration"
                           ELSE "Registration successful! Loading your tests..."]
         ELSE [studentRegister EXCEPT
                 !.toast = IF error THEN "Error during registration"
                           ELSE "Registration successful! Loading your tests..."]
  /\ route' = IF error THEN route ELSE "/"
  /\ UNCHANGED notRegister

\* Go to login (StudentRegister.tsx 118-124)
GoToLogin ==
  /\ Registering
  /\ route' = "/admin"
  /\ UNCHANGED << studentRegister, signUp, notRegister >>

NextRegister ==
  \/ \E value \in FullNames : setFullName(value)
  \/ \E value \in ClassChoices : setSelectedClass(value)
  \/ RegisterSubmit
  \/ \E error \in BOOLEAN : SignUpResponse(error)
  \/ GoToLogin

(***************************************************************************)
(* The two forms, each in a session of its own: the admin on the authoring *)
(* form, a student on the registration form.                               *)
(***************************************************************************)
InitForms ==
  /\ route \in { "/", "/admin/create-quiz" }
  /\ InitCreateQuiz
  /\ InitStudentRegister
  /\ TakeQuizUnused
  /\ AdminDashboardUnused
  /\ ResultsUnused
  /\ StudentAttemptsUnused
  /\ AuthUnused

NextForms ==
  \/ NextCreate
  \/ NextRegister

SpecForms == InitForms /\ [][NextForms]_vars

(***************************************************************************)
(* The student dashboard (src/src/pages/StudentDashboard.tsx) of one       *)
(* student who starts quizzes from it and comes back.                      *)
(***************************************************************************)
\* attempt rows the student accumulates
MaxStudentAttempts == 6

\* StudentDashboard.tsx 62: .limit(5)
AttemptsLimit == 5

TheStudent == [id |-> "s1", role |-> "student", class |-> "JSS 1"]

notStudent == << quizRow, questionRows, attemptsDb, answersDb, toasts, fetchPc, quiz,
                 questions, currentQuestionIndex, answers, timeLeft, attemptId, loading,
                 submitting, showTimeUpDialog, subs, started, createQuiz, publish,
                 quizzesDb, questionsDb, adminDashboard, statsPending,
                 studentRegister, signUp, results, auth, history >>

\* StudentDashboard.tsx 30 with the position of fetchAttempts
MountedStudentAttempts == [attempts |-> <<>>, pc |-> "pending"]

OnStudentDashboard == route = "/tests"

\* order('submitted_at', { ascending: false }): PostgreSQL sorts descending
\* with NULLS FIRST unless told otherwise, so the rows without submit time
\* come first; rows with equal keys are taken in the order of their ids
RECURSIVE OrderBySubmittedAtDesc(_)
OrderBySubmittedAtDesc(S) ==
  IF S = {} THEN <<>>
  ELSE LET nulls == { i \in S : quizAttemptsDb[i].submitted_at = NullInt }
           first == IF nulls # {}
                      THEN CHOOSE i \in nulls : \A j \in nulls : i <= j
                      ELSE CHOOSE i \in S : \A j \in S :
                             quizAttemptsDb[i].submitted_at >= quizAttemptsDb[j].submitted_at
       IN  <<first>> \o OrderBySubmittedAtDesc(S \ {first})

\* the first n elements
Limit(s, n) == SubSeq(s, 1, IF Len(s) < n THEN Len(s) ELSE n)

\* StudentDashboard.tsx 58-62: the rows the caller may read, newest submit
\* time first, at most 5
SelectAttempts(user) ==
  LET visible == { i \in DOMAIN quizAttemptsDb :
                     \/ StudentsCanViewTheirOwnAttempts(user, quizAttemptsDb[i])
                     \/ AdminsCanViewAllAttemptsForTheirQuizzes(user, quizAttemptsDb[i]) }
      ids == Limit(OrderBySubmittedAtDesc(visible), AttemptsLimit)
  IN  [k \in DOMAIN ids |-> quizAttemptsDb[ids[k]]]

\* StudentDashboard.tsx 56-69: response of the quiz_attempts select
fetchAttempts(error) ==
  /\ OnStudentDashboard
  /\ studentAttempts.pc = "pending"
  /\ studentAttempts' = [attempts |-> IF error THEN studentAttempts.attempts
                                      ELSE SelectAttempts(TheStudent),
                         pc |-> IF error THEN "failed" ELSE "done"]
  /\ UNCHANGED << route, quizAttemptsDb, studentDashboard, notStudent >>

\* StudentDashboard.tsx 71-73
hasAttempted(quizId) ==
  \E k \in DOMAIN studentAttempts.attempts :
    /\ studentAttempts.attempts[k].quiz_id = quizId
    /\ studentAttempts.attempts[k].submitted_at # NullInt

\* StudentDashboard.tsx 75-78: << score, total_points >> of the first match
getQuizScore(quizId) ==
  LET found == { k \in DOMAIN studentAttempts.attempts :
                   /\ studentAttempts.attempts[k].quiz_id = quizId
                   /\ studentAttempts.attempts[k].submitted_at # NullInt }
  IN  IF found = {} THEN <<>>
      ELSE LET k == CHOOSE k \in found : \A j \in found : k <= j
           IN  << studentAttempts.attempts[k].score,
                  studentAttempts.attempts[k].total_points >>

\* Start Quiz / Retake Quiz (StudentDashboard.tsx 149-155) and the load of
\* TakeQuiz up to its attempt insert (TakeQuiz.tsx 118-125)
StartQuiz(quizId) ==
  /\ OnStudentDashboard
  /\ studentAttempts.pc # "pending"
  /\ \E k \in DOMAIN studentDashboard[TheStudent] : studentDashboard[TheStudent][k] = quizId
  /\ Len(quizAttemptsDb) < MaxStudentAttempts
  /\ route' = "/quiz"
  /\ quizAttemptsDb' = Append(quizAttemptsDb,
                              [quiz_id |-> quizId, student_id |-> TheStudent.id,
                               submitted_at |-> NullInt, score |-> NullInt,
                               total_points |-> NullInt])
  /\ UNCHANGED << studentAttempts, studentDashboard, notStudent >>

\* the number of submit times handed out so far
SubmitClock ==
  Cardinality({ i \in DOMAIN quizAttemptsDb : quizAttemptsDb[i].submitted_at # NullInt })

\* the student comes back to the dashboard, which mounts anew: after leaving
\* the quiz (the attempt stays without submit time) or after a submission
\* (TakeQuiz.tsx 176-184) and the results view
BackToDashboard(submitted) ==
  /\ route = "/quiz"
  /\ route' = "/tests"
  /\ quizAttemptsDb' =
       IF submitted
         THEN [quizAttemptsDb EXCEPT
                 ![Len(quizAttemptsDb)].submitted_at = SubmitClock + 1,
                 ![Len(quizAttemptsDb)].score = 2,
                 ![Len(quizAttemptsDb)].total_points = 3]
         ELSE quizAttemptsDb
  /\ studentAttempts' = MountedStudentAttempts
  /\ UNCHANGED << studentDashboard, notStudent >>

InitStudent ==
  /\ route = "/tests"
  /\ studentAttempts = MountedStudentAttempts
  /\ studentDashboard = [s \in Students |-> <<>>]
  /\ quizzesDb = AuthoredQuizzes
  /\ quizAttemptsDb = <<>>
  /\ createQuiz = <<>>
  /\ publish = [pc |-> "idle"]
  /\ questionsDb = <<>>
  /\ adminDashboard = <<>>
  /\ statsPending = {}
  /\ TakeQuizUnused
  /\ RegisterUnused
  /\ ResultsUnused
  /\ AuthUnused

NextStudent ==
  \/ \E error \in BOOLEAN : fetchQuizzes(TheStudent, error)
  \/ \E error \in BOOLEAN : fetchAttempts(error)
  \/ \E quizId \in DOMAIN AuthoredQuizzes : StartQuiz(quizId)
  \/ \E submitted \in BOOLEAN : BackToDashboard(submitted)

SpecStudent == InitStudent /\ [][NextStudent]_vars

(***************************************************************************)
(* The router (src/src/App.tsx) and the navigations of the pages.          *)
(***************************************************************************)
\* entries of the history stack
MaxHistory == 3

\* App.tsx 28-37; :quizId and :attemptId stand for any identifier
Routes ==
  { [path |-> "/", element |-> "StudentRegister"],
    [path |-> "/admin", element |-> "AdminLogin"],
    [path |-> "/dashboard", element |-> "Index"],
    [path |-> "/tests", element |-> "StudentDashboard"],
    [path |-> "/admin/dashboard", element |-> "AdminDashboard"],
    [path |-> "/admin/create-quiz", element |-> "CreateQuiz"],
    [path |-> "/quiz/:quizId", element |-> "TakeQuiz"],
    [path |-> "/results/:attemptId", element |-> "Results"],
    [path |-> "/results", element |-> "Results"] }

\* the element the router renders for a path; App.tsx 38 is the catch-all
Page(path) ==
  IF \E r \in Routes : r.path = path
    THEN (CHOOSE r \in Routes : r.path = path).element
    ELSE "NotFound"

\* the role a route is protected with (App.tsx 30-36); "any" takes every user
RoleOf(path) ==
  CASE path \in { "/tests", "/quiz/:quizId", "/results" } -> "student"
    [] path \in { "/admin/dashboard", "/admin/create-quiz" } -> "admin"
    [] OTHER -> "any"

\* every navigate() of the pages: the page that calls it, the role it is
\* called for, the path, replace, and the page it is meant to show (the view
\* its button or its comment names)
Navigations ==
  { [page |-> "Index", role |-> "admin", to |-> "/admin", replace |-> TRUE,
     purpose |-> "AdminDashboard"],
    [page |-> "Index", role |-> "student", to |-> "/student", replace |-> TRUE,
     purpose |-> "StudentDashboard"],
    [page |-> "TakeQuiz", role |-> "student", to |-> "/student", replace |-> FALSE,
     purpose |-> "StudentDashboard"],
    [page |-> "TakeQuiz", role |-> "student", to |-> "/results/:attemptId",
     replace |-> FALSE, purpose |-> "Results"],
    [page |-> "Results", role |-> "student", to |-> "/student", replace |-> FALSE,
     purpose |-> "StudentDashboard"],
    [page |-> "StudentDashboard", role |-> "student", to |-> "/results",
     replace |-> FALSE, purpose |-> "Results"],
    [page |-> "StudentDashboard", role |-> "student", to |-> "/quiz/:quizId",
     replace |-> FALSE, purpose |-> "TakeQuiz"],
    [page |-> "AdminDashboard", role |-> "admin", to |-> "/admin/create-quiz",
     replace |-> FALSE, purpose |-> "CreateQuiz"],
    [page |-> "CreateQuiz", role |-> "admin", to |-> "/admin", replace |-> FALSE,
     purpose |-> "AdminDashboard"] }

\* the entry of a path the user opened: nothing was meant but the path
Opened(path) == [path |-> path, by |-> "user", purpose |-> Page(path)]

\* the entry a navigate() leaves
Navigated(nav) == [path |-> nav.to, by |-> nav.page, purpose |-> nav.purpose]

Push(entry) == Append(history, entry)

Replace(entry) == [history EXCEPT ![Len(history)] = entry]

notRoutes == << quizRow, questionRows, attemptsDb, answersDb, toasts, fetchPc, quiz,
                questions, currentQuestionIndex, answers, timeLeft, attemptId, loading,
                submitting, showTimeUpDialog, subs, started, createVars, adminVars,
                studentRegister, signUp, studentAttempts >>

\* the route parameter of a path that mounts Results (Results.tsx 32): the
\* route "/results" carries none
AttemptIdParam(path) == IF path = "/results/:attemptId" THEN ":attemptId" ELSE NULL

\* Results.tsx 32-43: the state after mount; the effect starts fetchResults
\* only when there is an attempt id
MountedResults(path) ==
  [attemptId |-> AttemptIdParam(path), attempt |-> NULL, answers |-> NULL,
   loading |-> TRUE,
   pc |-> IF AttemptIdParam(path) # NULL THEN "attempt" ELSE "idle"]

\* the results view of a path: mounted where the router renders Results
ResultsAt(path) == IF Page(path) = "Results" THEN MountedResults(path) ELSE <<>>

ResultsMounted == results # <<>>

\* Results.tsx 47-58, 75-80: the attempt select returns; an error is thrown,
\* logged, and finally ends the loading
ResultsAttemptResponse(error) ==
  /\ ResultsMounted
  /\ results.pc = "attempt"
  /\ results' = IF error
                  THEN [results EXCEPT !.loading = FALSE, !.pc = "done"]
                  ELSE [results EXCEPT !.pc = "answers"]
  /\ UNCHANGED << route, history, auth, notRoutes >>

\* Results.tsx 60-80: the answers select returns; on success attempt and
\* answers are set; finally ends the loading
ResultsAnswersResponse(error) ==
  /\ ResultsMounted
  /\ results.pc = "answers"
  /\ results' = IF error
                  THEN [results EXCEPT !.loading = FALSE, !.pc = "done"]
                  ELSE [results EXCEPT !.attempt = results.attemptId,
                                       !.answers = results.attemptId,
                                       !.loading = FALSE, !.pc = "done"]
  /\ UNCHANGED << route, history, auth, notRoutes >>

\* AuthContext has resolved the session: the profile of the signed-in user
ProfileLoaded(role) ==
  /\ auth.loading
  /\ auth' = [loading |-> FALSE, profile |-> [role |-> role]]
  /\ UNCHANGED << route, history, results, notRoutes >>

\* a page calls navigate(): the effect of Index once the profile is there
\* (TakeQuiz.tsx 355-363), a button, or the end of a handler
Navigate(nav) ==
  /\ ~auth.loading
  /\ Page(route) = nav.page
  /\ auth.profile.role = nav.role
  /\ nav.replace \/ Len(history) < MaxHistory
  /\ route' = nav.to
  /\ history' = IF nav.replace THEN Replace(Navigated(nav)) ELSE Push(Navigated(nav))
  /\ results' = ResultsAt(route')
  /\ UNCHANGED << auth, notRoutes >>

\* the user opens a path of the router that their role may see
OpenPath(path) ==
  /\ ~auth.loading
  /\ RoleOf(path) \in { "any", auth.profile.role }
  /\ path # route
  /\ Len(history) < MaxHistory
  /\ route' = path
  /\ history' = Push(Opened(path))
  /\ results' = ResultsAt(route')
  /\ UNCHANGED << auth, notRoutes >>

\* the Back button of the browser
GoBack ==
  /\ Len(history) > 1
  /\ history' = SubSeq(history, 1, Len(history) - 1)
  /\ route' = history'[Len(history')].path
  /\ results' = ResultsAt(route')
  /\ UNCHANGED << auth, notRoutes >>

\* after login the user is on the index view and the session is being read
InitRoutes ==
  /\ route = "/dashboard"
  /\ history = << Opened("/dashboard") >>
  /\ auth = [loading |-> TRUE, profile |-> NULL]
  /\ TakeQuizUnused
  /\ AdminDashboardUnused
  /\ RegisterUnused
  /\ ResultsUnused
  /\ StudentAttemptsUnused
  /\ createQuiz = <<>>
  /\ publish = [pc |-> "idle"]
  /\ quizzesDb = <<>>
  /\ questionsDb = <<>>
  /\ studentDashboard = <<>>

NextRoutes ==
  \/ \E role \in { "admin", "student" } : ProfileLoaded(role)
  \/ \E nav \in Navigations : Navigate(nav)
  \/ \E r \in Routes : OpenPath(r.path)
  \/ GoBack
  \/ \E error \in BOOLEAN : ResultsAttemptResponse(error)
  \/ \E error \in BOOLEAN : ResultsAnswersResponse(error)

SpecRoutes == InitRoutes /\ [][NextRoutes]_vars

\* every request the results view has sent is answered
FairSpecRoutes ==
  /\ SpecRoutes
  /\ WF_vars(\E error \in BOOLEAN : ResultsAttemptResponse(error))
  /\ WF_vars(\E error \in BOOLEAN : ResultsAnswersResponse(error))

(***************************************************************************)
(* Properties.                                                             *)
(***************************************************************************)
\* all answer rows computed so far: persisted, or carried by an invocation in flight
PersistedRows == BagToSet(answersDb)

ComputedRows ==
  PersistedRows \cup UNION { { subs[n].answersData[i] : i \in DOMAIN subs[n].answersData } :
                             n \in DOMAIN subs }

\* the text between the first and the last non-blank character
FirstInk(s) ==
  IF \E i \in 1..Len(s) : s[i] \notin WhiteSpace
    THEN CHOOSE i \in 1..Len(s) : s[i] \notin WhiteSpace /\ \A j \in 1..(i - 1) : s[j] \in WhiteSpace
    ELSE Len(s) + 1

LastInk(s) ==
  IF \E i \in 1..Len(s) : s[i] \notin WhiteSpace
    THEN CHOOSE i \in 1..Len(s) : s[i] \notin WhiteSpace /\ \A j \in (i + 1)..Len(s) : s[j] \in WhiteSpace
    ELSE 0

Inked(s) == SubSeq(s, FirstInk(s), LastInk(s))

SameLetter(x, y) ==
  x = y \/ \E i \in 1..Len(UpperCase) : {x, y} = {UpperCase[i], LowerCase[i]}

\* a and b are the same text up to surrounding blanks and letter case
SameAnswer(a, b) ==
  /\ Len(Inked(a)) = Len(Inked(b))
  /\ \A i \in 1..Len(Inked(a)) : SameLetter(Inked(a)[i], Inked(b)[i])

\* invocation n grades the end-to-end scenario: "B" for the multiple-choice
\* question worth 2 and "False" for the true/false question worth 1
EndToEndScenario(n) ==
  /\ Len(subs[n].answersData) = 2
  /\ \E i, j \in 1..2 :
       /\ subs[n].answersData[i].question_id = 1
       /\ subs[n].answersData[i].student_answer = StrB
       /\ subs[n].answersData[j].question_id = 2
       /\ subs[n].answersData[j].student_answer = StrFalse

\* C1: every answer row that submit computes is marked correct exactly when the
\* recorded answer equals the question's correct answer up to surrounding
\* whitespace and letter case, and earns the question's full points when
\* correct and 0 otherwise, for questions of all three types; the end-to-end
\* scenario is graded 2 out of 3.
C1_ExactMatchGrading ==
  /\ \A r \in ComputedRows :
       LET q == Catalogue[r.question_id]
       IN  /\ r.is_correct = SameAnswer(r.student_answer, q.correct_answer)
           /\ r.points_earned = IF r.is_correct THEN q.points ELSE 0
  /\ \A n \in DOMAIN subs :
       EndToEndScenario(n) => subs[n].score = 2 /\ subs[n].totalPoints = 3

\* a persisted short answer graded correct although it differs from the stored
\* answer in case and blanks, next to a persisted wrong answer worth 0
C1_Witness ==
  /\ \E r \in PersistedRows :
       /\ r.is_correct
       /\ r.student_answer # Catalogue[r.question_id].correct_answer
       /\ r.points_earned = Catalogue[r.question_id].points
  /\ \E r \in PersistedRows :
       /\ ~r.is_correct
       /\ r.student_answer # <<>>
       /\ r.points_earned = 0


RECURSIVE SumOver(_, _)
SumOver(S, f) ==
  IF S = {} THEN 0
  ELSE LET x == CHOOSE y \in S : TRUE
       IN  f[x] + SumOver(S \ {x}, f)

\* the persisted answer rows of attempt aid
RowsOf(aid) == { r \in PersistedRows : r.attempt_id = aid }

\* the number of persisted answer rows of attempt aid for question qid
RowCount(aid, qid) ==
  SumOver({ r \in RowsOf(aid) : r.question_id = qid },
          [r \in RowsOf(aid) |-> CopiesIn(r, answersDb)])

PersistedPoints(aid) ==
  SumOver(RowsOf(aid), [r \in RowsOf(aid) |-> CopiesIn(r, answersDb) * r.points_earned])

Submitted(aid) == attemptsDb[aid].submitted_at

\* C2: every attempt with a submit time stores as score the sum of
\* points_earned over all answer rows persisted for it, and as total_points
\* the sum of the point values of the quiz's questions, after any sequence of
\* manual submit, timeout submit and resubmission after a failure.
C2_ScoreIsSumOfAnswers ==
  \A aid \in DOMAIN attemptsDb :
    Submitted(aid) =>
      /\ attemptsDb[aid].score = PersistedPoints(aid)
      /\ attemptsDb[aid].total_points = TotalPoints(questionRows)

\* C3: the update that sets submit time, score, total points and elapsed time
\* is applied at most once per attempt, under every interleaving of manual
\* submit, countdown reaching zero and backend responses; a row that has a
\* submit time is never written again.
C3_AttemptUpdatedOnce ==
  \A aid \in DOMAIN attemptsDb : attemptsDb[aid].updates <= 1

\* C4: once an attempt has a submit time, its persisted answer rows are exactly
\* one row per question of the served quiz, and at no time are there two rows
\* for the same attempt and question.
C4_OneAnswerRowPerQuestion ==
  \A aid \in DOMAIN attemptsDb :
    /\ \A i \in DOMAIN questionRows : RowCount(aid, questionRows[i].id) <= 1
    /\ Submitted(aid) =>
         \A i \in DOMAIN questionRows : RowCount(aid, questionRows[i].id) = 1

\* C5: within one quiz-taking session handleSubmit is started with reason
\* timeout at most once, whatever the interleaving of timer ticks, answer
\* edits, manual submits and backend responses.
C5_OneAutomaticSubmission ==
  started.timeout <= 1

\* the countdown reached zero and started the automatic submission while a
\* manual submission had been started as well
C5_Witness ==
  /\ started.timeout = 1
  /\ started.manual >= 1
  /\ timeLeft = 0
  /\ showTimeUpDialog

\* C6: once a quiz of duration d is loaded and its attempt created, and no
\* manual submission occurs, the countdown at zero means that the submission
\* with reason timeout has been started -- also when the attempt insert
\* answered late and when d * 60 = 0.
C6_TimeoutSubmits ==
  (fetchPc = "done" /\ timeLeft = 0 /\ started.manual = 0) => started.timeout >= 1

\* the view is in the InProgress state: questions fetched, attempt created,
\* no submission in flight
InProgress == fetchPc = "done" /\ attemptId # NoAttempt /\ ~loading /\ subs = <<>>

\* C7: remaining time is decremented only in the InProgress state, not while
\* the attempt insert is pending and not while a submission is pending.
C7_CountdownOnlyInProgress ==
  [][timeLeft' < timeLeft => InProgress]_vars


\* the answer rows of invocation n are all persisted
RowsPersisted(n) ==
  \A i \in DOMAIN subs[n].answersData : CopiesIn(subs[n].answersData[i], answersDb) >= 1

\* attempt aid has an answer row persisted for every question of the served quiz
HasAnswerRows(aid) ==
  \A i \in DOMAIN questions : RowCount(aid, questions[i].id) >= 1

\* C8: within a submission the answer rows are inserted first and the attempt
\* row is updated only afterwards and only if that insert succeeded: an
\* invocation reaches its attempt update only with its answer rows persisted,
\* every step that writes an attempt row finds the answer rows of the served
\* questions persisted, and every attempt with a submit time has them.
C8_AnswersBeforeAttempt ==
  /\ [](\A n \in DOMAIN subs : subs[n].pc = "update" => RowsPersisted(n))
  /\ [](\A aid \in DOMAIN attemptsDb : Submitted(aid) => HasAnswerRows(aid))
  /\ [][\A aid \in DOMAIN attemptsDb :
          attemptsDb'[aid] # attemptsDb[aid] => HasAnswerRows(aid)]_vars

\* an attempt of a quiz with questions got its submit time, with its rows persisted
C8_Witness ==
  /\ attemptId # NoAttempt
  /\ Submitted(attemptId)
  /\ Len(questions) >= 1
  /\ RowsOf(attemptId) # {}
  /\ toasts.submit_failed >= 1

\* a step in which some invocation of handleSubmit ran its catch block
SubmitFailure == toasts'.submit_failed # toasts.submit_failed

\* the requests that the invocations in flight are waiting for
Requests(ss) == { << ss[n].autoSubmit, ss[n].timeTaken, ss[n].pc >> : n \in DOMAIN ss }

\* C9: when a write of a submission fails, the stored attempt is left
\* unchanged and without a submit time, a failure notice is shown, the view
\* does not navigate to results, and no write is issued again by that step.
C9_FailureLeavesAttemptUnsubmitted ==
  [][SubmitFailure =>
       /\ attemptsDb' = attemptsDb
       /\ \A aid \in DOMAIN attemptsDb : ~attemptsDb'[aid].submitted_at
       /\ answersDb' = answersDb
       /\ toasts'.submit_failed = toasts.submit_failed + 1
       /\ route' # "/results"
       /\ Requests(subs') \subseteq Requests(subs)]_vars

\* C10: the view is on the results route of an attempt only after that
\* attempt's answer rows were inserted and its submit time was written.
C10_ResultsOnlyAfterSuccess ==
  route = "/results" =>
    /\ attemptId # NoAttempt
    /\ Submitted(attemptId)
    /\ HasAnswerRows(attemptId)

\* the invocation of handleSubmit that a step has started
StartedSubmission == subs'[Len(subs')]

\* C11: every question the student never answered is recorded with the empty
\* string, marked incorrect and earns 0 points, whatever correct answer the
\* authoring flow accepted for it -- a correct answer of blanks included.
C11_UnansweredEarnsNothing ==
  /\ [][started' # started =>
          \A i \in DOMAIN questions :
            questions[i].id \notin DOMAIN answers =>
              /\ StartedSubmission.answersData[i].student_answer = <<>>
              /\ ~StartedSubmission.answersData[i].is_correct
              /\ StartedSubmission.answersData[i].points_earned = 0]_vars
  /\ [](\A r \in PersistedRows :
          r.student_answer = <<>> => ~r.is_correct /\ r.points_earned = 0)

\* C12: after a failure of the quiz fetch, the question fetch or the attempt
\* insert a failure notice has been shown, the view has left the quiz route,
\* the session is neither in progress nor submitting, no submission has been or
\* is ever started, the countdown no longer moves and nothing is written; a
\* failure of the quiz fetch or the question fetch leaves no attempt row.
C12_LoadFailureAborts ==
  /\ [](fetchPc = "failed" =>
          /\ toasts.load_failed = 1
          /\ ~Mounted
          /\ ~InProgress
          /\ subs = <<>>
          /\ started = [manual |-> 0, timeout |-> 0]
          /\ answersDb = EmptyBag
          /\ \A aid \in DOMAIN attemptsDb : ~Submitted(aid))
  /\ [][fetchPc = "failed" =>
          timeLeft' = timeLeft /\ answersDb' = answersDb /\ attemptsDb' = attemptsDb]_vars
  /\ [][(fetchPc \in {"quiz", "questions"} /\ fetchPc' = "failed") => attemptsDb' = <<>>]_vars

\* the attempt insert failed after the countdown had been set and had moved
C12_Witness ==
  /\ fetchPc = "failed"
  /\ quiz # <<>>
  /\ timeLeft \in 1..(SecondsPerMinute - 1)
  /\ route = "/student"

\* C13: whenever the questions are presented, the attempt row of this session
\* exists and has no submit time; once the student has left the page without a
\* submission, no attempt row is ever written again and none has a submit time.
C13_AttemptBeforeAnswering ==
  /\ [](Rendered =>
          /\ attemptId \in DOMAIN attemptsDb
          /\ ~Submitted(attemptId))
  /\ [](route = "/dashboard" => \A aid \in DOMAIN attemptsDb : ~Submitted(aid))
  /\ [][route = "/dashboard" =>
          \A aid \in DOMAIN attemptsDb : attemptsDb'[aid] = attemptsDb[aid]]_vars

\* the student answered a question and left: the attempt row stays unsubmitted
C13_Witness ==
  /\ route = "/dashboard"
  /\ DOMAIN answers # {}
  /\ attemptId \in DOMAIN attemptsDb
  /\ ~Submitted(attemptId)
  /\ fetchPc = "done"

\* the ids of a question sequence, in order
Ids(qs) == [i \in DOMAIN qs |-> qs[i].id]

\* C16: if randomize_questions is false, the served questions are in the stored
\* insertion order of the quiz's questions, on every load.
C16_StoredOrderWhenNotRandomized ==
  (quiz # <<>> /\ ~quizRow.randomize_questions) => Ids(questions) = Ids(questionRows)

\* the number of positions of s that hold x
Occurrences(s, x) == Cardinality({ i \in DOMAIN s : s[i] = x })

\* a and b hold the same elements the same number of times
SamePopulation(a, b) ==
  /\ Len(a) = Len(b)
  /\ \A i \in DOMAIN a : Occurrences(a, a[i]) = Occurrences(b, a[i])

\* the stored row of a served question
StoredRow(q) == questionRows[CHOOSE i \in DOMAIN questionRows : questionRows[i].id = q.id]

\* C17: the served questions are the fetched questions in some order, none lost
\* or duplicated and nothing but options changed; with randomize_options the
\* served options of a multiple-choice question are its stored options in some
\* order and the options of the other types are untouched; without the flag no
\* option list is changed.
C17_LoadOnlyReorders ==
  quiz # <<>> =>
    /\ SamePopulation(Ids(questions), Ids(questionRows))
    /\ \A i \in DOMAIN questions :
         /\ [questions[i] EXCEPT !.options = StoredRow(questions[i]).options]
              = StoredRow(questions[i])
         /\ IF quizRow.randomize_options /\ questions[i].question_type = "mcq"
              THEN SamePopulation(questions[i].options, StoredRow(questions[i]).options)
              ELSE questions[i].options = StoredRow(questions[i]).options

\* both the questions and the options of the multiple-choice question are served
\* in another order than stored
C17_Witness ==
  /\ quiz # <<>>
  /\ quizRow.randomize_questions /\ quizRow.randomize_options
  /\ Len(questions) = 2
  /\ questions[1].id = 2
  /\ questions[2].options = << StrB, StrA >>

\* C20: the elapsed time of a submission is duration_minutes * 60 minus the
\* remaining seconds when the submission starts, a timeout submission has
\* exactly duration_minutes * 60, every update stores the elapsed time of its
\* submission, and the stored value lies in 0 .. duration_minutes * 60.
C20_ElapsedTime ==
  /\ [][started' # started =>
          /\ StartedSubmission.timeTaken
               = quizRow.duration_minutes * SecondsPerMinute - timeLeft'
          /\ StartedSubmission.autoSubmit =>
               StartedSubmission.timeTaken = quizRow.duration_minutes * SecondsPerMinute]_vars
  /\ [][\A aid \in DOMAIN attemptsDb :
          attemptsDb'[aid] # attemptsDb[aid] =>
            \E n \in DOMAIN subs :
              attemptsDb'[aid].time_taken_seconds = subs[n].timeTaken]_vars
  /\ [](\A aid \in DOMAIN attemptsDb :
          Submitted(aid) =>
            /\ 0 <= attemptsDb[aid].time_taken_seconds
            /\ attemptsDb[aid].time_taken_seconds
                 <= quizRow.duration_minutes * SecondsPerMinute)

\* the rule of the specification: text and correct answer are not empty and, for
\* multiple choice, no option slot is empty
AcceptedByRule(q) ==
  /\ q.question_text # <<>>
  /\ q.correct_answer # <<>>
  /\ q.question_type = "mcq" => \A j \in DOMAIN q.options : q.options[j] # <<>>

RejectionNotices ==
  { "Please fill in question text and correct answer",
    "Please fill in all options for MCQ" }

\* C14: every question of the accumulated list satisfies the rule, a question
\* is appended only when the question being edited satisfies it, and a step
\* that shows a rejection notice leaves the list and the edited question as
\* they were.
C14_QuestionValidation ==
  /\ [](\A i \in DOMAIN createQuiz.questions : AcceptedByRule(createQuiz.questions[i]))
  /\ [][Len(createQuiz'.questions) > Len(createQuiz.questions) =>
          /\ AcceptedByRule(createQuiz.currentQuestion)
          /\ createQuiz'.toast = "Question added"]_vars
  /\ [][(createQuiz'.toast \in RejectionNotices /\ createQuiz'.toast # createQuiz.toast) =>
          /\ ~AcceptedByRule(createQuiz.currentQuestion)
               \/ \E j \in DOMAIN createQuiz.currentQuestion.options :
                    createQuiz.currentQuestion.options[j] = StrBlank
          /\ createQuiz'.questions = createQuiz.questions
          /\ createQuiz'.currentQuestion = createQuiz.currentQuestion]_vars

\* a multiple-choice question was accepted, and a later one with a blank option
\* was rejected with the list unchanged
C14_Witness ==
  /\ Len(createQuiz.questions) = 1
  /\ createQuiz.questions[1].question_type = "mcq"
  /\ createQuiz.toast = "Please fill in all options for MCQ"
  /\ createQuiz.currentQuestion.question_type = "mcq"
  /\ createQuiz.currentQuestion.options[4] = StrBlank

\* the question rows tagged with quiz id
QuestionsOf(id) == { i \in DOMAIN questionsDb : questionsDb[i].quiz_id = id }

\* C15: every question row is tagged with a stored quiz row; the question rows
\* are written in one step, after the step that wrote their quiz row, as the
\* whole accumulated list tagged with the id of that row; a failed quiz insert
\* writes nothing; a failed question batch writes nothing and leaves the quiz
\* row stored with no question.
C15_QuizBeforeQuestions ==
  /\ [](\A i \in DOMAIN questionsDb : questionsDb[i].quiz_id \in DOMAIN quizzesDb)
  /\ [][quizzesDb' # quizzesDb =>
          /\ questionsDb' = questionsDb
          /\ QuestionsOf(Len(quizzesDb')) = {}]_vars
  /\ [][questionsDb' # questionsDb =>
          /\ quizzesDb' = quizzesDb
          /\ QuestionsOf(Len(quizzesDb)) = {}
          /\ Len(questionsDb') = Len(questionsDb) + Len(publish.questionsData)
          /\ \A i \in (Len(questionsDb) + 1)..Len(questionsDb') :
               questionsDb'[i].quiz_id = Len(quizzesDb)]_vars
  /\ [][(publish.pc = "quiz" /\ publish'.pc = "idle") =>
          quizzesDb' = quizzesDb /\ questionsDb' = questionsDb]_vars
  /\ [][(publish.pc = "questions" /\ createQuiz'.toast = "Failed to create quiz") =>
          /\ quizzesDb' = quizzesDb
          /\ questionsDb' = questionsDb
          /\ QuestionsOf(Len(quizzesDb)) = {}]_vars

\* the first publish lost its question batch and left its quiz row without
\* questions, the second publish wrote a quiz row and then its two questions
C15_Witness ==
  /\ Len(quizzesDb) = 2
  /\ QuestionsOf(1) = {}
  /\ Cardinality(QuestionsOf(2)) = 2
  /\ createQuiz.toast = "Quiz created successfully!"

\* C19: every quiz written by the authoring flow carries a class label and is
\* readable by exactly the students of that class and by its owner; no student
\* passes the update or the delete policy.
C19_QuizReadableByItsClass ==
  \A id \in DOMAIN quizzesDb :
    /\ \E s \in Students : quizzesDb[id].class = s.class
    /\ \A s \in Students :
         StudentsCanViewQuizzesForTheirClass(s, quizzesDb[id])
           <=> s.class = quizzesDb[id].class
    /\ StudentsCanViewQuizzesForTheirClass(Admin, quizzesDb[id])
    /\ \A s \in Students :
         /\ ~AdminsCanUpdateTheirOwnQuizzes(s, quizzesDb[id])
         /\ ~AdminsCanDeleteTheirOwnQuizzes(s, quizzesDb[id])

\* the submitted attempts of a quiz, as positions of quiz_attempts
SubmittedAttemptsOf(quizId) ==
  { i \in DOMAIN quizAttemptsDb :
      quizAttemptsDb[i].quiz_id = quizId /\ quizAttemptsDb[i].submitted_at # NullInt }

\* x is the percentage 100 * score / total_points of attempt row a
IsPercentageOf(x, a) ==
  /\ x # NaN
  /\ a.total_points # 0
  /\ x.n * a.total_points = x.d * 100 * a.score

\* x is the mean of the percentages of the attempts S, all of total_points 3
IsMeanOfPercentages(x, S) ==
  LET RECURSIVE SumOfScores(_)
      SumOfScores(T) ==
        IF T = {} THEN 0
        ELSE LET i == CHOOSE i \in T : TRUE
             IN  quizAttemptsDb[i].score + SumOfScores(T \ {i})
  IN  /\ x # NaN
      /\ \A i \in S : quizAttemptsDb[i].total_points = 3
      /\ x.n * 3 * Cardinality(S) = x.d * 100 * SumOfScores(S)

StatsMatch(st, S) ==
  /\ st.attempts = Cardinality(S)
  /\ S = {} => st.avg_score = Number(0, 1) /\ st.highest_score = Number(0, 1)
  /\ S # {} =>
       /\ IsMeanOfPercentages(st.avg_score, S)
       /\ \E i \in S : IsPercentageOf(st.highest_score, quizAttemptsDb[i])
       /\ \A i \in S :
            \E x \in { Number(100 * quizAttemptsDb[i].score, quizAttemptsDb[i].total_points) } :
              GreaterOrEqual(st.highest_score, x)
       /\ GreaterOrEqual(st.highest_score, st.avg_score)

\* C18: whenever the dashboard stores the statistics of a quiz, they are
\* computed over exactly the attempts of that quiz with a submit time:
\* attempts is their count, average the mean and highest the maximum of
\* 100 * score / total_points, highest >= average, and all three are 0 when
\* no attempt of the quiz is submitted
C18_StatsOverSubmittedAttempts ==
  [][\A quizId \in DOMAIN AuthoredQuizzes :
       (quizId \in statsPending /\ quizId \notin statsPending'
          /\ adminDashboard'.stats # adminDashboard.stats)
         => /\ quizId \in DOMAIN adminDashboard'.stats
            /\ StatsMatch(adminDashboard'.stats[quizId], SubmittedAttemptsOf(quizId))]_vars

\* C21: one quiz-taking session creates at most one attempt row, by one
\* insert; attemptId is set at most once and then names that row; every
\* answer row computed or persisted and every handleSubmit in flight carries
\* that id, and only that row is ever updated.
C21_OneAttemptPerSession ==
  /\ [](/\ Len(attemptsDb) <= 1
        /\ attemptId \in {NoAttempt} \cup DOMAIN attemptsDb
        /\ \A n \in DOMAIN subs : subs[n].attemptId = attemptId /\ attemptId # NoAttempt
        /\ \A row \in ComputedRows : row.attempt_id \in DOMAIN attemptsDb
        /\ fetchPc = "done" => Len(attemptsDb) = 1)
  /\ [][/\ attemptId # NoAttempt => attemptId' = attemptId
        /\ Len(attemptsDb') # Len(attemptsDb) => fetchPc = "attempt" /\ fetchPc' = "done"
        /\ \A aid \in DOMAIN attemptsDb :
             attemptsDb'[aid] # attemptsDb[aid] => aid = attemptId]_vars

\* a session whose attempt row was updated by a submission with stored answers
C21_Witness ==
  /\ Len(attemptsDb) = 1
  /\ attemptId = 1
  /\ attemptsDb[1].updates >= 1
  /\ \E row \in PersistedRows : row.attempt_id = 1

\* the fields of the authoring form, the notice aside
CreateQuizForm ==
  [createQuiz EXCEPT !.toast = "none"]

\* the fields of the registration form, the notice aside
StudentRegisterForm ==
  [studentRegister EXCEPT !.toast = "none"]

\* C22: a form that fails validation attempts nothing.  A step of the
\* authoring form that shows 'Please provide title and at least one question'
\* issues no insert and changes no field, and an insert is issued only with a
\* title and at least one question; a step of the registration form that
\* shows 'Please fill in all fields' issues no sign-up call and changes no
\* field, and a sign-up call is issued only with a name and a class.
C22_ValidationFailureAttemptsNothing ==
  /\ [][/\ (createQuiz'.toast # createQuiz.toast
             /\ createQuiz'.toast = "Please provide title and at least one question")
            => /\ publish' = publish /\ publish.pc = "idle"
               /\ quizzesDb' = quizzesDb /\ questionsDb' = questionsDb
               /\ CreateQuizForm' = CreateQuizForm
               /\ createQuiz.title = <<>> \/ Len(createQuiz.questions) = 0
        /\ (publish.pc = "idle" /\ publish'.pc # "idle")
            => /\ createQuiz.title # <<>> /\ Len(createQuiz.questions) > 0
               /\ createQuiz'.toast = createQuiz.toast
        /\ (quizzesDb' # quizzesDb \/ questionsDb' # questionsDb) => publish.pc # "idle"]_vars
  /\ [][/\ (studentRegister'.toast # studentRegister.toast
             /\ studentRegister'.toast = "Please fill in all fields")
            => /\ signUp' = signUp /\ signUp.pc = "idle"
               /\ StudentRegisterForm' = StudentRegisterForm
               /\ studentRegister.fullName = <<>> \/ studentRegister.selectedClass = ""
        /\ (signUp.pc = "idle" /\ signUp'.pc # "idle")
            => /\ studentRegister.fullName # <<>> /\ studentRegister.selectedClass # ""
               /\ signUp'.data.full_name = studentRegister.fullName
               /\ signUp'.data.class = studentRegister.selectedClass
               /\ studentRegister'.toast = studentRegister.toast]_vars

\* the authoring form with a question and no title, after Create Quiz was
\* clicked: the notice is up and nothing was written
C22_Witness ==
  /\ createQuiz.toast = "Please provide title and at least one question"
  /\ createQuiz.title = <<>>
  /\ Len(createQuiz.questions) > 0
  /\ ~createQuiz.loading
  /\ publish.pc = "idle"
  /\ quizzesDb = <<>>

\* the answers that a handleSubmit invocation graded, by question id
GradedAnswers(sub) ==
  [id \in { sub.answersData[i].question_id : i \in DOMAIN sub.answersData } |->
     LET i == CHOOSE i \in DOMAIN sub.answersData : sub.answersData[i].question_id = id
     IN  sub.answersData[i].student_answer]

\* C23: grading does not depend on randomization.  What every handleSubmit
\* computes from the served questions - per-question rows, score and total
\* points - is what the same answers give on the stored rows in their stored
\* order with their stored options, for every order of questions and options
\* the load has produced.
C23_GradingIgnoresRandomization ==
  [][Len(subs') > Len(subs) =>
       LET sub == subs'[Len(subs')]
           stored == AnswersData(sub.attemptId, questionRows, GradedAnswers(sub))
       IN  /\ { sub.answersData[i] : i \in DOMAIN sub.answersData }
                = { stored[i] : i \in DOMAIN stored }
           /\ Len(sub.answersData) = Len(stored)
           /\ sub.score = Score(stored)
           /\ sub.totalPoints = TotalPoints(questionRows)]_vars

\* a submission of the two-question quiz served in reverse order with the
\* options of its mcq question reversed, one answer right and one wrong
C23_Witness ==
  \E n \in DOMAIN subs :
    /\ questionRows = SubSeq(Catalogue, 1, 2)
    /\ questions[1].id = 2
    /\ questions[2].options = << StrB, StrA >>
    /\ subs[n].answersData[1].question_id = 2
    /\ subs[n].score = 2
    /\ subs[n].totalPoints = 3

\* C24: every attempt with a submit time has total_points > 0, so that the
\* percentage 100 * score / total_points is defined, for every stored quiz -
\* a quiz whose question batch was never written included - and a manual or
\* timeout submission.
C24_TotalPointsPositive ==
  \A aid \in DOMAIN attemptsDb :
    Submitted(aid) => attemptsDb[aid].total_points > 0

\* the student has an attempt of the quiz with a submit time
HasSubmittedAttempt(user, quizId) ==
  \E i \in DOMAIN quizAttemptsDb :
    /\ quizAttemptsDb[i].student_id = user.id
    /\ quizAttemptsDb[i].quiz_id = quizId
    /\ quizAttemptsDb[i].submitted_at # NullInt

\* C25: once the dashboard has loaded the student's attempts, it marks a quiz
\* as attempted, with a score, if and only if the student has at least one
\* attempt of that quiz with a submit time - for any number of submitted and
\* abandoned attempts.
C25_AttemptedIffSubmitted ==
  (OnStudentDashboard /\ studentAttempts.pc = "done") =>
    \A quizId \in DOMAIN AuthoredQuizzes :
      /\ hasAttempted(quizId) <=> HasSubmittedAttempt(TheStudent, quizId)
      /\ hasAttempted(quizId) => getQuizScore(quizId) # <<>>

\* C26: every navigation a page performs lands on a route the router defines
\* for that purpose - never on the catch-all - and the redirect after login
\* shows admins the admin quiz list and students the student quiz list.
C26_NavigationsLandOnDefinedRoutes ==
  \A i \in DOMAIN history :
    history[i].by # "user" =>
      /\ Page(history[i].path) # "NotFound"
      /\ Page(history[i].path) = history[i].purpose

\* C27: on every route that mounts the results view - the one without an
\* attempt id too - a view that is loading eventually is not loading any
\* more (or is left).
C27_ResultsLeaveLoading ==
  (ResultsMounted /\ results.loading) ~> ~(ResultsMounted /\ results.loading)

\* C28: while the quiz view is rendered the index of the current question
\* is at least 0 and less than the number of questions, and it never
\* decreases; a manual submission starts only on the last question and only
\* while no submission is in flight.
C28_QuestionIndexAndManualSubmit ==
  /\ [](Rendered => /\ 0 <= currentQuestionIndex
                     /\ currentQuestionIndex < Len(questions))
  /\ [][Rendered /\ Rendered' => currentQuestionIndex' >= currentQuestionIndex]_vars
  /\ [][started'.manual # started.manual =>
         /\ currentQuestionIndex = Len(questions) - 1
         /\ subs = <<>>
         /\ Len(subs') = 1]_vars

\* a manual submission is in flight from the last of several questions
C28_Witness ==
  /\ Rendered
  /\ currentQuestionIndex > 0
  /\ currentQuestionIndex = Len(questions) - 1
  /\ started.manual = 1
  /\ Len(subs) = 1

\* C29: the statistics fetches of the quizzes complete in any order; each
\* successful one adds the entry of its own quiz, equal to the statistics of
\* the rows it read, and leaves every other entry as it was; a failed one
\* changes nothing; so when all have completed the map holds exactly the
\* entries of the fetches that succeeded.
C29_StatsEntriesKept ==
  /\ [][adminDashboard.stats' # adminDashboard.stats =>
         \E quizId \in statsPending :
           LET rows == SelectSubmittedAttempts(Admin, quizId)
               data == [i \in DOMAIN rows |-> quizAttemptsDb[rows[i]]]
           IN  /\ statsPending' = statsPending \ {quizId}
               /\ DOMAIN adminDashboard.stats' = DOMAIN adminDashboard.stats \cup {quizId}
               /\ adminDashboard.stats'[quizId] = QuizStats(data)
               /\ \A q \in DOMAIN adminDashboard.stats \ {quizId} :
                     adminDashboard.stats'[q] = adminDashboard.stats[q]]_vars
  /\ [][\A q \in DOMAIN adminDashboard.stats :
          /\ q \in DOMAIN adminDashboard.stats'
          /\ adminDashboard.stats'[q] = adminDashboard.stats[q]]_vars
  /\ [](\A q \in DOMAIN adminDashboard.stats :
          /\ q \notin statsPending
          /\ \E i \in DOMAIN adminDashboard.quizzes : adminDashboard.quizzes[i] = q)

\* both fetches have completed and succeeded
C29_Witness ==
  /\ statsPending = {}
  /\ Cardinality(DOMAIN adminDashboard.stats) = 2
  /\ \E q \in DOMAIN adminDashboard.stats : adminDashboard.stats[q].attempts > 0

\* the correct answer of a question is one of its options
AnswerAmongOptions(q) ==
  \E i \in DOMAIN q.options : SameAnswer(q.options[i], q.correct_answer)

Answerable(q) ==
  /\ q.question_type = "mcq" => AnswerAmongOptions(q)
  /\ q.question_type = "true_false" =>
        /\ q.options = << StrTrue, StrFalse >>
        /\ AnswerAmongOptions(q)

\* C30: every accepted multiple-choice question has a correct answer equal,
\* trimmed and without regard to case, to one of its options; every accepted
\* true/false question has the options True and False and a correct answer
\* equal to one of them; the same for the question rows stored.
C30_CorrectAnswerAmongOptions ==
  /\ \A i \in DOMAIN createQuiz.questions : Answerable(createQuiz.questions[i])
  /\ \A i \in DOMAIN questionsDb : Answerable(questionsDb[i])

====
